---------------------------- MODULE Spec2Model ----------------------------
(***************************************************************************)
(* url-state: the value codec (serializeUrl / deserializeUrl), its three   *)
(* caches, the parameter extractor and the QueryBuilder of                  *)
(* src/src/query-builder.ts, as a state machine.                            *)
(*                                                                          *)
(* JavaScript strings are sequences of code units (one-character strings;   *)
(* "uD800" names the lone surrogate U+D800).  JavaScript values are records *)
(* tagged by type; composite values live in a heap and are referred to by   *)
(* identity ([t |-> "ref", id |-> i]).                                      *)
(***************************************************************************)
EXTENDS Integers, Sequences, FiniteSets, TLC

(***************************************************************************)
(* Bounds of the model.                                                     *)
(***************************************************************************)
MaxObjs == 2        \* objects the heap may hold
MaxIgnored == 2     \* names the ignore list may hold

(***************************************************************************)
(* Characters and strings.                                                  *)
(***************************************************************************)
\* Printable ASCII, code 32 first: Ascii[c - 31] is the character of code c
\* ("dquote", "bslash" and "btick" name the double quote, the backslash and the
\* backtick).
Ascii ==
  << " ", "!", "dquote", "#", "$", "%", "&", "'", "(", ")", "*", "+", ",", "-", ".", "/",
     "0", "1", "2", "3", "4", "5", "6", "7", "8", "9", ":", ";", "<", "=", ">", "?",
     "@", "A", "B", "C", "D", "E", "F", "G", "H", "I", "J", "K", "L", "M", "N", "O",
     "P", "Q", "R", "S", "T", "U", "V", "W", "X", "Y", "Z", "[", "bslash", "]", "^", "_",
     "btick", "a", "b", "c", "d", "e", "f", "g", "h", "i", "j", "k", "l", "m", "n", "o",
     "p", "q", "r", "s", "t", "u", "v", "w", "x", "y", "z", "{", "|", "}", "~" >>

LoneSurrogate == "uD800"

\* The code of every character of Ascii.
CodeOf == [c \in {Ascii[i] : i \in 1..Len(Ascii)} |->
             31 + (CHOOSE i \in 1..Len(Ascii) : Ascii[i] = c)]

CharCode(c) == CodeOf[c]

Digits == {"0", "1", "2", "3", "4", "5", "6", "7", "8", "9"}

DigitVal(c) == CharCode(c) - 48

UpperHex == <<"0", "1", "2", "3", "4", "5", "6", "7", "8", "9", "A", "B", "C", "D", "E", "F">>

IsHex(c) == c \in Digits \cup {"A", "B", "C", "D", "E", "F", "a", "b", "c", "d", "e", "f"}

HexVal(c) ==
  IF c \in Digits THEN DigitVal(c)
  ELSE IF c \in {"A", "B", "C", "D", "E", "F"} THEN CharCode(c) - 55
  ELSE CharCode(c) - 87

\* The characters encodeURIComponent leaves as they are (ECMAScript uriUnescaped).
UnreservedChars ==
  Digits \cup {Ascii[i] : i \in 34..59}      \* A-Z
         \cup {Ascii[i] : i \in 66..91}      \* a-z
         \cup {"-", "_", ".", "!", "~", "*", "'", "(", ")"}

Unreserved(c) == c \in UnreservedChars

StartsWith(s, p) == Len(s) >= Len(p) /\ SubSeq(s, 1, Len(p)) = p

Includes(s, p) == \E i \in 1..(Len(s) - Len(p) + 1) : SubSeq(s, i, i + Len(p) - 1) = p

RECURSIVE EncodeFrom(_, _)
\* encodeURIComponent from position i on: the escaped text, or ok = FALSE when a
\* lone surrogate is met.
EncodeFrom(s, i) ==
  IF i > Len(s) THEN [ok |-> TRUE, s |-> <<>>]
  ELSE IF s[i] = LoneSurrogate THEN [ok |-> FALSE, s |-> <<>>]
  ELSE LET rest == EncodeFrom(s, i + 1)
           c == CharCode(s[i])
           here == IF Unreserved(s[i]) THEN <<s[i]>>
                   ELSE <<"%", UpperHex[(c \div 16) + 1], UpperHex[(c % 16) + 1]>>
       IN  IF rest.ok THEN [ok |-> TRUE, s |-> here \o rest.s] ELSE rest

\* encodeURIComponent(s): ok = FALSE stands for the URIError it throws.
encodeURIComponent(s) == EncodeFrom(s, 1)

RECURSIVE DecodeFrom(_, _)
\* decodeURIComponent from position i on.  A "%" must be followed by two hex
\* digits; an escaped byte >= 0x80 starts a UTF-8 sequence, and the model's texts
\* hold such bytes only in ill-formed sequences: URIError.
DecodeFrom(s, i) ==
  IF i > Len(s) THEN [ok |-> TRUE, s |-> <<>>]
  ELSE IF s[i] # "%"
    THEN LET rest == DecodeFrom(s, i + 1)
         IN  IF rest.ok THEN [ok |-> TRUE, s |-> <<s[i]>> \o rest.s] ELSE rest
  ELSE IF i + 2 > Len(s) \/ ~IsHex(s[i + 1]) \/ ~IsHex(s[i + 2])
    THEN [ok |-> FALSE, s |-> <<>>]
  ELSE LET byte == 16 * HexVal(s[i + 1]) + HexVal(s[i + 2])
           rest == DecodeFrom(s, i + 3)
       IN  IF byte >= 128 \/ byte < 32 \/ byte = 127 THEN [ok |-> FALSE, s |-> <<>>]
           ELSE IF rest.ok THEN [ok |-> TRUE, s |-> <<Ascii[byte - 31]>> \o rest.s]
           ELSE rest

\* decodeURIComponent(s): ok = FALSE stands for the URIError it throws.
decodeURIComponent(s) == DecodeFrom(s, 1)

(***************************************************************************)
(* Numbers: String(n) and Number(text) on integers.                         *)
(***************************************************************************)
RECURSIVE NatToStr(_)
NatToStr(n) ==
  IF n < 10 THEN <<UpperHex[n + 1]>>
  ELSE NatToStr(n \div 10) \o <<UpperHex[(n % 10) + 1]>>

\* String(n) for an integer n.
NumToStr(n) == IF n < 0 THEN <<"-">> \o NatToStr(0 - n) ELSE NatToStr(n)

AllDigits(s) == Len(s) > 0 /\ \A i \in 1..Len(s) : s[i] \in Digits

RECURSIVE DigitsToNat(_)
DigitsToNat(s) ==
  IF Len(s) = 0 THEN 0
  ELSE 10 * DigitsToNat(SubSeq(s, 1, Len(s) - 1)) + DigitVal(s[Len(s)])

RECURSIVE Pow10(_)
Pow10(k) == IF k = 0 THEN 1 ELSE 10 * Pow10(k - 1)

RECURSIVE Trim(_)
\* StringToNumber strips white space at both ends.
Trim(s) ==
  IF Len(s) > 0 /\ s[1] = " " THEN Trim(Tail(s))
  ELSE IF Len(s) > 0 /\ s[Len(s)] = " " THEN Trim(SubSeq(s, 1, Len(s) - 1))
  ELSE s

\* An unsigned decimal literal: digits, or digits "e" digits.
UnsignedToNum(s) ==
  IF AllDigits(s) THEN [nan |-> FALSE, n |-> DigitsToNat(s)]
  ELSE IF \E i \in 2..(Len(s) - 1) :
            /\ s[i] \in {"e", "E"}
            /\ AllDigits(SubSeq(s, 1, i - 1))
            /\ AllDigits(SubSeq(s, i + 1, Len(s)))
    THEN LET i == CHOOSE j \in 2..(Len(s) - 1) : s[j] \in {"e", "E"}
         IN  [nan |-> FALSE,
              n |-> DigitsToNat(SubSeq(s, 1, i - 1)) * Pow10(DigitsToNat(SubSeq(s, i + 1, Len(s))))]
  ELSE [nan |-> TRUE, n |-> 0]

\* The negation of a parsed number.
Negated(u) == [nan |-> u.nan, n |-> 0 - u.n]

\* Number of a trimmed text.
TrimmedToNum(s) ==
  IF Len(s) = 0 THEN [nan |-> FALSE, n |-> 0]
  ELSE IF s[1] = "-" THEN Negated(UnsignedToNum(Tail(s)))
  ELSE UnsignedToNum(IF s[1] = "+" THEN Tail(s) ELSE s)

\* Number(text): the empty (or blank) text is 0, a signed decimal literal its
\* value, anything else NaN.
StrToNum(text) == TrimmedToNum(Trim(text))

(***************************************************************************)
(* Values and the heap.                                                     *)
(***************************************************************************)
Str(s) == [t |-> "str", s |-> s]

Num(n) == [t |-> "num", n |-> n]

Bool(b) == [t |-> "bool", b |-> b]

Null == [t |-> "null"]

Undefined == [t |-> "undefined"]

Ref(i) == [t |-> "ref", id |-> i]

\* A call that ends by throwing err instead of returning.
Thrown(err) == [t |-> "throw", err |-> err]

(***************************************************************************)
(* Plain objects: the list of <<key, value>> properties in insertion order  *)
(* (the order Object.entries enumerates).                                   *)
(***************************************************************************)
ObjKeys(o) == {o[i][1] : i \in 1..Len(o)}

ObjHas(o, key) == key \in ObjKeys(o)

ObjGet(o, key) == o[CHOOSE i \in 1..Len(o) : o[i][1] = key][2]

\* o[key] = val: an existing property keeps its place, a new one goes last.
ObjSet(o, key, val) ==
  IF ObjHas(o, key)
    THEN [i \in 1..Len(o) |-> IF o[i][1] = key THEN <<key, val>> ELSE o[i]]
    ELSE Append(o, <<key, val>>)

RECURSIVE ObjAssign(_, _)
\* {...target, ...src}: the properties of src written over target, in src's order.
ObjAssign(target, src) ==
  IF Len(src) = 0 THEN target
  ELSE ObjAssign(ObjSet(target, src[1][1], src[1][2]), Tail(src))

\* The mapping an object stands for: what "equal by value" compares.
AsMap(o) == [key \in ObjKeys(o) |-> ObjGet(o, key)]

\* Heap objects: an array of numbers, a function, a plain object.
ArrObj(e) == [k |-> "arr", e |-> e]

FnObj == [k |-> "fn"]

PlainObj(p) == [k |-> "obj", p |-> p]

\* new Date(0): an object without own enumerable properties.
DateObj == [k |-> "date"]

\* The source text String(f) gives for the function values of the model.
FnSource == <<"(", ")", "=", ">", "1">>

RECURSIVE Deep(_, _)
\* The content of a value: what "equal by value" compares.
Deep(h, v) ==
  IF v.t # "ref" THEN v
  ELSE IF h[v.id].k = "arr" THEN [t |-> "array", e |-> h[v.id].e]
  ELSE IF h[v.id].k = "fn" THEN [t |-> "function", id |-> v.id]
  ELSE [t |-> "object",
        p |-> [key \in ObjKeys(h[v.id].p) |-> Deep(h, ObjGet(h[v.id].p, key))]]

(***************************************************************************)
(* seroval (the structural codec the source imports, line 150), on arrays  *)
(* of numbers: serialize writes the array literal, deserialize evaluates    *)
(* one; serialize throws on a function and deserialize on any other text of *)
(* the model.                                                               *)
(***************************************************************************)
RECURSIVE JoinNums(_)
JoinNums(e) ==
  IF Len(e) = 0 THEN <<>>
  ELSE IF Len(e) = 1 THEN NumToStr(e[1])
  ELSE NumToStr(e[1]) \o <<",">> \o JoinNums(Tail(e))

serialize(h, id) ==
  IF h[id].k = "arr" THEN [ok |-> TRUE, s |-> <<"[">> \o JoinNums(h[id].e) \o <<"]">>]
  ELSE IF h[id].k = "date"
    THEN [ok |-> TRUE,
          s |-> <<"n", "e", "w", " ", "D", "a", "t", "e", "(", "dquote", "1", "9", "7", "0", "-",
                  "0", "1", "-", "0", "1", "T", "0", "0", ":", "0", "0", ":", "0", "0", ".",
                  "0", "0", "0", "Z", "dquote", ")">>]
  ELSE [ok |-> FALSE, s |-> <<>>]

\* Whether a text is the canonical decimal literal of a natural number.
IsNatLiteral(s) == AllDigits(s) /\ NumToStr(DigitsToNat(s)) = s

\* The position of the first comma of a text, 0 when it has none.
FirstComma(s) ==
  IF \E i \in 1..Len(s) : s[i] = ","
    THEN CHOOSE j \in 1..Len(s) : s[j] = "," /\ \A m \in 1..(j - 1) : s[m] # ","
    ELSE 0

\* A parsed number put before a parsed list.
ConsParsed(head, rest) ==
  IF IsNatLiteral(head) /\ rest.ok
    THEN [ok |-> TRUE, e |-> <<DigitsToNat(head)>> \o rest.e]
    ELSE [ok |-> FALSE, e |-> <<>>]

RECURSIVE ParseNumsAt(_, _)
\* The numbers of a comma-separated list of canonical decimal literals, whose
\* first comma is at position i.
ParseNumsAt(s, i) ==
  IF i = 0 THEN ConsParsed(s, [ok |-> TRUE, e |-> <<>>])
  ELSE ConsParsed(SubSeq(s, 1, i - 1),
                  ParseNumsAt(SubSeq(s, i + 1, Len(s)),
                              FirstComma(SubSeq(s, i + 1, Len(s)))))

ParseNums(s) == ParseNumsAt(s, FirstComma(s))

deserialize(s) ==
  IF Len(s) >= 2 /\ s[1] = "[" /\ s[Len(s)] = "]"
    THEN IF Len(s) = 2 THEN [ok |-> TRUE, e |-> <<>>]
         ELSE ParseNums(SubSeq(s, 2, Len(s) - 1))
    ELSE [ok |-> FALSE, e |-> <<>>]

(***************************************************************************)
(* The value codec.                                                         *)
(***************************************************************************)
MAX_CACHE_SIZE == 1000

\* A function extended or overwritten at one key (Map.set).
MapSet(m, key, val) == [x \in DOMAIN m \cup {key} |-> IF x = key THEN val ELSE m[x]]

EmptyMap == [x \in {} |-> 0]

\* encodeURIComponent(text) as the value of a return statement.
ReturnEncoded(text) ==
  LET e == encodeURIComponent(text)
  IN  IF e.ok THEN Str(e.s) ELSE Thrown("URIError")

\* String(value) for the composite values of the model (the catch of serializeUrl).
StringOfObject(h, id) ==
  IF h[id].k = "arr" THEN JoinNums(h[id].e)
  ELSE IF h[id].k = "fn" THEN FnSource
  ELSE <<"[", "o", "b", "j", "e", "c", "t", " ", "O", "b", "j", "e", "c", "t", "]">>

\* The lookup of serializeUrl: whether the encode cache answers for the value.
SerializationCacheHit(cache, v) == v.id \in DOMAIN cache

\* A serializeUrl that stores whatever the size of the cache.
SerializeEncodedUnbounded(cache, h, v, encoded) ==
  IF encoded.t = "throw"
    THEN [ret |-> ReturnEncoded(StringOfObject(h, v.id)), cache |-> cache]
    ELSE [ret |-> encoded, cache |-> MapSet(cache, v.id, encoded)]

\* Lines 190-197: the serialized text escaped, stored in the cache while it has
\* room, and returned; line 200 when the escape throws.
SerializeEncoded(cache, h, v, encoded) ==
  IF encoded.t = "throw"
    THEN [ret |-> ReturnEncoded(StringOfObject(h, v.id)), cache |-> cache]
    ELSE [ret |-> encoded,
          cache |-> IF Cardinality(DOMAIN cache) < MAX_CACHE_SIZE
                      THEN MapSet(cache, v.id, encoded)
                      ELSE cache]

\* Lines 188-201: the try block on the outcome `serialized` of seroval's serialize.
SerializeTry(cache, h, v, serialized) ==
  IF serialized.ok THEN SerializeEncoded(cache, h, v, ReturnEncoded(serialized.s))
  ELSE [ret |-> ReturnEncoded(StringOfObject(h, v.id)), cache |-> cache]

\* serializeUrl without the early return of line 181: null and undefined
\* fall to the String(value) of the primitive paths.
serializeUrlStringified(cache, h, v) ==
  IF v.t = "str" THEN [ret |-> ReturnEncoded(v.s), cache |-> cache]
  ELSE IF v.t = "num" THEN [ret |-> ReturnEncoded(NumToStr(v.n)), cache |-> cache]
  ELSE IF v.t = "bool"
    THEN [ret |-> ReturnEncoded(IF v.b THEN <<"t", "r", "u", "e">>
                                        ELSE <<"f", "a", "l", "s", "e">>),
          cache |-> cache]
  ELSE IF v.t = "null"
    THEN [ret |-> ReturnEncoded(<<"n", "u", "l", "l">>), cache |-> cache]
  ELSE IF v.t = "undefined"
    THEN [ret |-> ReturnEncoded(<<"u", "n", "d", "e", "f", "i", "n", "e", "d">>),
          cache |-> cache]
  ELSE IF SerializationCacheHit(cache, v) THEN [ret |-> cache[v.id], cache |-> cache]
  ELSE SerializeTry(cache, h, v, serialize(h, v.id))

\* serializeUrl(value) with encode cache `cache` and heap h: the value returned
\* (or the error thrown) and the encode cache afterwards.
serializeUrl(cache, h, v) ==
  IF v.t = "str" THEN [ret |-> ReturnEncoded(v.s), cache |-> cache]
  ELSE IF v.t = "num" THEN [ret |-> ReturnEncoded(NumToStr(v.n)), cache |-> cache]
  ELSE IF v.t = "bool"
    THEN [ret |-> ReturnEncoded(IF v.b THEN <<"t", "r", "u", "e">>
                                        ELSE <<"f", "a", "l", "s", "e">>),
          cache |-> cache]
  ELSE IF v.t \in {"null", "undefined"} THEN [ret |-> Str(<<>>), cache |-> cache]
  ELSE IF SerializationCacheHit(cache, v) THEN [ret |-> cache[v.id], cache |-> cache]
  ELSE SerializeTry(cache, h, v, serialize(h, v.id))

\* The catch of deserializeUrlValue: return decodeURIComponent(value), which
\* throws again when it was what threw.
Unescaped(d) == IF d.ok THEN Str(d.s) ELSE Thrown("URIError")

DeserializeCatch(value) == Unescaped(decodeURIComponent(value))

\* The lookup of deserializeUrlValue: whether the decode cache answers for the text.
DeserializationCacheHit(cache, value) == value \in DOMAIN cache

\* A number test without the comparison with String(asNumber).
NumberParses(decoded, asNumber) == ~asNumber.nan

\* The number test of deserializeUrlValue (line 226).
NumberRoundTrips(decoded, asNumber) == ~asNumber.nan /\ decoded = NumToStr(asNumber.n)

IsCanonicalNumber(decoded) == NumberRoundTrips(decoded, StrToNum(decoded))

\* The plain-string test of deserializeUrlValue (line 231).
LooksSimple(decoded) ==
  /\ ~StartsWith(decoded, <<"[">>)
  /\ ~StartsWith(decoded, <<"{">>)
  /\ ~Includes(decoded, <<"s", "e", "r", "o", "v", "a", "l", ":">>)

\* A structural path that stores nothing in the cache.
DeserializeStructuralUncached(cache, h, value, result) ==
  IF ~result.ok THEN [ret |-> DeserializeCatch(value), cache |-> cache, heap |-> h]
  ELSE [ret |-> Ref(Len(h) + 1), cache |-> cache, heap |-> Append(h, ArrObj(result.e))]

\* Lines 236-243: the outcome `result` of seroval's deserialize: a new object,
\* stored in the cache while it has room, or the catch when it threw.
DeserializeStructural(cache, h, value, result) ==
  IF ~result.ok THEN [ret |-> DeserializeCatch(value), cache |-> cache, heap |-> h]
  ELSE [ret |-> Ref(Len(h) + 1),
        cache |-> IF Cardinality(DOMAIN cache) < MAX_CACHE_SIZE
                    THEN MapSet(cache, value, Ref(Len(h) + 1))
                    ELSE cache,
        heap |-> Append(h, ArrObj(result.e))]

\* Lines 216-243: the try block on the outcome d of decodeURIComponent(value).
DeserializeTry(cache, h, value, d) ==
  IF ~d.ok THEN [ret |-> DeserializeCatch(value), cache |-> cache, heap |-> h]
  ELSE IF d.s = <<"t", "r", "u", "e">>
    THEN [ret |-> Bool(TRUE), cache |-> cache, heap |-> h]
  ELSE IF d.s = <<"f", "a", "l", "s", "e">>
    THEN [ret |-> Bool(FALSE), cache |-> cache, heap |-> h]
  ELSE IF d.s = <<"n", "u", "l", "l">>
    THEN [ret |-> Null, cache |-> cache, heap |-> h]
  ELSE IF d.s = <<"u", "n", "d", "e", "f", "i", "n", "e", "d">>
    THEN [ret |-> Undefined, cache |-> cache, heap |-> h]
  ELSE IF IsCanonicalNumber(d.s)
    THEN [ret |-> Num(StrToNum(d.s).n), cache |-> cache, heap |-> h]
  ELSE IF LooksSimple(d.s)
    THEN [ret |-> Str(d.s), cache |-> cache, heap |-> h]
  ELSE DeserializeStructural(cache, h, value, deserialize(d.s))

\* deserializeUrlValue(value) with decode cache `cache` and heap h: the value
\* returned (or the error thrown), the decode cache and the heap afterwards (a
\* structural result is a new object).
deserializeUrlValue(cache, h, value) ==
  IF Len(value) = 0 THEN [ret |-> Str(value), cache |-> cache, heap |-> h]
  ELSE IF DeserializationCacheHit(cache, value)
    THEN [ret |-> cache[value], cache |-> cache, heap |-> h]
  ELSE DeserializeTry(cache, h, value, decodeURIComponent(value))

(***************************************************************************)
(* The parameter extractor: deserializeUrl (lines 259-314).  A source is a  *)
(* string [t |-> "str"], a URLSearchParams instance [t |-> "usp", id |-> i]  *)
(* whose entries are srcs[i], or a plain mapping [t |-> "plain", o |-> list] *)
(* of string, string-array ([t |-> "strs", a |-> seq]) or undefined values.  *)
(***************************************************************************)
Usp(i) == [t |-> "usp", id |-> i]

Plain(o) == [t |-> "plain", o |-> o]

Strs(a) == [t |-> "strs", a |-> a]

\* Lines 286-288: the entry pushed for one property of a plain mapping: none for
\* undefined, the first element of an array (undefined when it is empty).
PlainEntry(key, value) ==
  IF value.t = "undefined" THEN <<>>
  ELSE IF value.t = "strs"
    THEN <<<<key, IF Len(value.a) > 0 THEN Str(value.a[1]) ELSE Undefined>>>>
  ELSE <<<<key, value>>>>

RECURSIVE PlainEntries(_)
\* Lines 284-289: the entries of a plain mapping.
PlainEntries(o) ==
  IF Len(o) = 0 THEN <<>>
  ELSE PlainEntry(o[1][1], o[1][2]) \o PlainEntries(Tail(o))

\* Lines 279-290.
EntriesOf(srcs, input) ==
  IF input.t = "usp" THEN [i \in 1..Len(srcs[input.id]) |->
                             <<srcs[input.id][i][1], Str(srcs[input.id][i][2])>>]
  ELSE PlainEntries(input.o)

\* Whether an entry is kept under the prefix (line 296; every entry without one).
KeepsKey(key, uniqueKey) == Len(uniqueKey) = 0 \/ StartsWith(key, uniqueKey)

\* deserializeUrlValue on the value of an entry (undefined, which !value answers,
\* when a plain mapping gave an empty array).
DecodeEntry(cache, h, value) ==
  IF value.t = "undefined" THEN [ret |-> Undefined, cache |-> cache, heap |-> h]
  ELSE deserializeUrlValue(cache, h, value.s)

RECURSIVE ProcessEntries(_, _, _, _, _)
RECURSIVE ProcessDecoded(_, _, _, _, _)
\* Lines 293-305: decode every kept entry into plainParams, in order; a decode
\* that throws ends the loop.
ProcessEntries(cache, h, entries, uniqueKey, plainParams) ==
  IF Len(entries) = 0
    THEN [thrown |-> FALSE, p |-> plainParams, cache |-> cache, heap |-> h]
  ELSE IF ~KeepsKey(entries[1][1], uniqueKey)
    THEN ProcessEntries(cache, h, Tail(entries), uniqueKey, plainParams)
  ELSE ProcessDecoded(DecodeEntry(cache, h, entries[1][2]), h, entries, uniqueKey,
                      plainParams)

\* Lines 297-298 and 303: the decoded value r.ret of the first entry is written
\* under the key without its prefix, and the loop goes on.
ProcessDecoded(r, h, entries, uniqueKey, plainParams) ==
  IF r.ret.t = "throw"
    THEN [thrown |-> TRUE, p |-> plainParams, cache |-> r.cache, heap |-> r.heap]
  ELSE ProcessEntries(r.cache, r.heap, Tail(entries), uniqueKey,
                      ObjSet(plainParams,
                             SubSeq(entries[1][1], Len(uniqueKey) + 1, Len(entries[1][1])),
                             r.ret))

\* Line 269: whether the extraction cache answers.
SearchParamsCacheHit(spcache, input, uniqueKey) ==
  input.t = "usp" /\ Len(uniqueKey) = 0 /\ input.id \in DOMAIN spcache

\* Line 309: whether the result is stored in the extraction cache.
SearchParamsCacheStores(input, uniqueKey) == input.t = "usp" /\ Len(uniqueKey) = 0

\* The result of deserializeUrlValue as a result of deserializeUrl (line 265).
ValueResult(r, spcache) ==
  [ret |-> r.ret, dcache |-> r.cache, spcache |-> spcache, heap |-> r.heap]

\* Lines 308-313: the mapping r.p that the loop built is a new object, stored in
\* the extraction cache for a URLSearchParams source without prefix, and returned.
ExtractionResult(r, spcache, input, uniqueKey) ==
  IF r.thrown
    THEN [ret |-> Thrown("URIError"), dcache |-> r.cache, spcache |-> spcache,
          heap |-> r.heap]
    ELSE [ret |-> Ref(Len(r.heap) + 1), dcache |-> r.cache,
          spcache |-> IF SearchParamsCacheStores(input, uniqueKey)
                        THEN MapSet(spcache, input.id, Ref(Len(r.heap) + 1))
                        ELSE spcache,
          heap |-> Append(r.heap, PlainObj(r.p))]

\* deserializeUrl(input, uniqueKey): the value returned (or the error thrown) and
\* the decode cache, the extraction cache and the heap afterwards.
deserializeUrl(dcache, spcache, h, srcs, input, uniqueKey) ==
  IF input.t = "str" THEN ValueResult(deserializeUrlValue(dcache, h, input.s), spcache)
  ELSE IF SearchParamsCacheHit(spcache, input, uniqueKey)
    THEN [ret |-> spcache[input.id], dcache |-> dcache, spcache |-> spcache, heap |-> h]
  ELSE ExtractionResult(ProcessEntries(dcache, h, EntriesOf(srcs, input), uniqueKey, <<>>),
                        spcache, input, uniqueKey)

(***************************************************************************)
(* State.                                                                   *)
(***************************************************************************)
VARIABLES
  heap,                  \* the composite values alive, by identity (1..Len(heap))
  serializationCache,    \* line 167: object identity -> encoded string
  deserializationCache,  \* line 168: encoded string -> decoded value
  searchParamsCache,     \* line 251: URLSearchParams identity -> extracted mapping
  sources,               \* the URLSearchParams instances: their <<name, string>> entries
  config,                \* QueryBuilder.config (line 19)
  last,                  \* the last call: its name, arguments and outcome
  first,                 \* the first build({}) since the builder was last configured
  hook,                  \* the component that uses useUrlState: location, render, instances
  batch                  \* useUrlStateBatch: pending updates, timer, the render's closure

vars == <<heap, serializationCache, deserializationCache, searchParamsCache, sources,
          config, last, first, hook, batch>>

codecVars == <<heap, serializationCache, deserializationCache>>

NoCall == [op |-> "none"]

\* No component that uses the hooks is mounted.
Unmounted == [mounted |-> FALSE]

(***************************************************************************)
(* Inputs of the codec.                                                     *)
(***************************************************************************)
T_true == <<"t", "r", "u", "e">>

T_false == <<"f", "a", "l", "s", "e">>

StringInputs ==
  { <<>>, <<"a">>, T_true, <<"7">>, <<"0", "7">>, <<"{">>, <<"%">>, <<LoneSurrogate>> }

NumberInputs == {0, 12, -1}

PrimitiveInputs ==
  {Str(s) : s \in StringInputs} \cup {Num(n) : n \in NumberInputs}
    \cup {Bool(TRUE), Bool(FALSE), Null, Undefined}

\* The arrays a caller builds.
ArrayInputs == {<<>>, <<1>>}

\* What a caller can pass to serializeUrl: a primitive or an object it holds.
EncodeInputs(h) ==
  PrimitiveInputs \cup {Ref(i) : i \in {j \in 1..Len(h) : h[j].k \in {"arr", "fn"}}}

\* Texts that are not the encoding of any value.
RawTexts ==
  { <<"%">>, <<"%", "E", "0", "%", "A", "4", "%", "A">>, <<"1", "e", "3">>,
    <<"s", "e", "r", "o", "v", "a", "l", "%", "3", "A", "a">>,
    <<"n", "u", "l", "l">>, <<"u", "n", "d", "e", "f", "i", "n", "e", "d">>,
    <<"1", "2", "a">> }

\* What a caller can pass to deserializeUrl: the encodings of the inputs above, and
\* the raw texts.
DecodeInputs ==
  {encodeURIComponent(s).s : s \in {x \in StringInputs : encodeURIComponent(x).ok}}
    \cup {NumToStr(n) : n \in NumberInputs} \cup {T_false}
    \cup {encodeURIComponent(<<"[">> \o JoinNums(e) \o <<"]">>).s : e \in ArrayInputs}
    \cup RawTexts

(***************************************************************************)
(* The codec's operations.                                                  *)
(***************************************************************************)
Init ==
  /\ heap = <<>>
  /\ serializationCache = EmptyMap
  /\ deserializationCache = EmptyMap
  /\ searchParamsCache = EmptyMap
  /\ sources = <<>>
  /\ config = EmptyMap
  /\ last = NoCall
  /\ first = NoCall
  /\ hook = Unmounted
  /\ batch = Unmounted

\* The state after serializeUrl(v) ended as r.
Serialized(v, r) ==
  /\ serializationCache' = r.cache
  /\ last' = [op |-> "serializeUrl", arg |-> v, ret |-> r.ret]
  /\ UNCHANGED <<heap, deserializationCache, searchParamsCache, sources, config, first, hook, batch>>

\* serializeUrl(v), for one of the values `inputs`.
SerializeUrlCall(inputs) ==
  \E v \in inputs : Serialized(v, serializeUrl(serializationCache, heap, v))

\* The state after deserializeUrl(s) ended as r, while the heap holds at most
\* `limit` objects.
DeserializedWithin(limit, s, r) ==
  /\ Len(r.heap) <= limit
  /\ deserializationCache' = r.dcache
  /\ searchParamsCache' = r.spcache
  /\ heap' = r.heap
  /\ last' = [op |-> "deserializeUrl", arg |-> s, ret |-> r.ret]
  /\ UNCHANGED <<serializationCache, sources, config, first, hook, batch>>

Deserialized(s, r) == DeserializedWithin(MaxObjs, s, r)

\* deserializeUrl(text), for one of the texts `inputs`.
DeserializeUrlCall(inputs) ==
  \E s \in inputs :
    Deserialized(s, deserializeUrl(deserializationCache, searchParamsCache, heap, sources,
                                   Str(s), <<>>))

\* The state after deserializeUrl(serializeUrl(v)): serializeUrl ended as e and,
\* when it returned, deserializeUrl as d.  `was` keeps the content v had when it
\* was passed.
RoundTripped(v, e, d) ==
  /\ serializationCache' = e.cache
  /\ IF e.ret.t = "throw"
       THEN /\ last' = [op |-> "roundTrip", arg |-> v, was |-> Deep(heap, v), ret |-> e.ret]
            /\ UNCHANGED <<heap, deserializationCache, searchParamsCache>>
       ELSE /\ Len(d.heap) <= MaxObjs
            /\ deserializationCache' = d.dcache
            /\ searchParamsCache' = d.spcache
            /\ heap' = d.heap
            /\ last' = [op |-> "roundTrip", arg |-> v, was |-> Deep(heap, v), ret |-> d.ret]
  /\ UNCHANGED <<sources, config, first, hook, batch>>

\* The decode of what serializeUrl returned (nothing to decode when it threw).
DecodeOf(e) ==
  IF e.ret.t = "throw"
    THEN [ret |-> e.ret, dcache |-> deserializationCache, spcache |-> searchParamsCache,
          heap |-> heap]
    ELSE deserializeUrl(deserializationCache, searchParamsCache, heap, sources, e.ret, <<>>)

RoundTripEncoded(v, e) == RoundTripped(v, e, DecodeOf(e))

\* deserializeUrl(serializeUrl(v)), for one of the values `inputs`.
RoundTrip(inputs) ==
  \E v \in inputs : RoundTripEncoded(v, serializeUrl(serializationCache, heap, v))

\* The caller builds an array.
NewArray ==
  \E e \in ArrayInputs :
    /\ Len(heap) < MaxObjs
    /\ heap' = Append(heap, ArrObj(e))
    /\ last' = [op |-> "newArray"]
    /\ UNCHANGED <<serializationCache, deserializationCache, searchParamsCache, sources,
                   config, first, hook, batch>>

\* The caller defines a function.
NewFunction ==
  /\ Len(heap) < MaxObjs
  /\ heap' = Append(heap, FnObj)
  /\ last' = [op |-> "newFunction"]
  /\ UNCHANGED <<serializationCache, deserializationCache, searchParamsCache, sources,
                 config, first, hook, batch>>

\* The caller changes the content of an array it holds (one it built, or one that
\* deserializeUrl returned).
MutateArray ==
  \E i \in 1..Len(heap), e \in ArrayInputs :
    /\ heap[i].k = "arr"
    /\ heap[i].e # e
    /\ heap' = [heap EXCEPT ![i] = ArrObj(e)]
    /\ last' = [op |-> "mutate"]
    /\ UNCHANGED <<serializationCache, deserializationCache, searchParamsCache, sources,
                   config, first, hook, batch>>

\* clearUrlStateCaches() (lines 319-322).
ClearUrlStateCaches ==
  /\ serializationCache' = EmptyMap
  /\ deserializationCache' = EmptyMap
  /\ last' = [op |-> "clearUrlStateCaches"]
  /\ UNCHANGED <<heap, searchParamsCache, sources, config, first, hook, batch>>

\* The codec on every kind of value: the caller passes primitives, texts, and the
\* arrays that deserializeUrl returned.
NextCodec ==
  \/ SerializeUrlCall(EncodeInputs(heap))
  \/ DeserializeUrlCall(DecodeInputs)
  \/ RoundTrip(EncodeInputs(heap))
  \/ ClearUrlStateCaches

SpecCodec == Init /\ [][NextCodec]_vars

\* The texts of the cache specification: the encodings of the arrays, and one
\* plain text.
CacheTexts ==
  {encodeURIComponent(<<"[">> \o JoinNums(e) \o <<"]">>).s : e \in ArrayInputs} \cup {<<"a">>}

\* The codec's caches under a caller that builds, passes and changes composite
\* values.
NextCache ==
  \/ SerializeUrlCall({Ref(i) : i \in 1..Len(heap)} \cup {Str(<<"a">>)})
  \/ DeserializeUrlCall(CacheTexts)
  \/ NewArray
  \/ NewFunction
  \/ MutateArray
  \/ ClearUrlStateCaches

SpecCache == Init /\ [][NextCache]_vars

\* The encoded text of an array of numbers.
TextOfArray(e) == encodeURIComponent(<<"[">> \o JoinNums(e) \o <<"]">>).s

\* The arrays [1], [2], ... that earlier calls of deserializeUrl returned, and one
\* more that the caller built.
FullHeap == [i \in 1..(MAX_CACHE_SIZE + 1) |-> ArrObj(<<i>>)]

\* The encode cache after serializeUrl was called on the first n of these arrays.
SerializationCacheOf(n) == [i \in 1..n |-> Str(TextOfArray(<<i>>))]

\* The decode cache after deserializeUrl was called on the texts of the first n.
DeserializationCacheOf(n) ==
  [s \in {TextOfArray(<<i>>) : i \in 1..n} |-> Ref(deserialize(decodeURIComponent(s).s).e[1])]

\* The caches after enough calls to fill them, or to leave room for one entry.
InitFullCache ==
  /\ heap = FullHeap
  /\ \E n \in {MAX_CACHE_SIZE - 1, MAX_CACHE_SIZE} :
       serializationCache = SerializationCacheOf(n)
  /\ \E n \in {MAX_CACHE_SIZE - 1, MAX_CACHE_SIZE} :
       deserializationCache = DeserializationCacheOf(n)
  /\ searchParamsCache = EmptyMap
  /\ sources = <<>>
  /\ config = EmptyMap
  /\ last = NoCall
  /\ first = NoCall
  /\ hook = Unmounted
  /\ batch = Unmounted

\* deserializeUrl(text) when the heap holds the arrays of the earlier calls.
DeserializeUrlFull(inputs) ==
  \E s \in inputs :
    DeserializedWithin(Len(FullHeap) + MaxObjs, s,
                       deserializeUrl(deserializationCache, searchParamsCache, heap, sources,
                                      Str(s), <<>>))

\* The codec with caches at their capacity: calls on cached and on new values.
NextFullCache ==
  \/ SerializeUrlCall({Ref(1), Ref(MAX_CACHE_SIZE), Ref(MAX_CACHE_SIZE + 1)})
  \/ DeserializeUrlFull({TextOfArray(<<1>>), TextOfArray(<<MAX_CACHE_SIZE>>),
                         TextOfArray(<<MAX_CACHE_SIZE + 1>>)})
  \/ ClearUrlStateCaches

SpecFullCache == InitFullCache /\ [][NextFullCache]_vars

(***************************************************************************)
(* The extractor's operations.                                              *)
(***************************************************************************)
K_q == <<"q">>

K_u_q == <<"u", "_", "q">>

K_u_r == <<"u", "_", "r">>

Prefixes == {<<>>, <<"u", "_">>}

\* The entries the URLSearchParams instance is created with.
SourceInputs ==
  { <<<<K_q, <<"1">>>>>>,
    <<<<K_u_q, <<"a">>>>, <<K_q, <<"1">>>>>>,
    <<<<K_q, <<"1">>>>, <<K_u_q, <<"7">>>>, <<K_q, <<"a">>>>>> }

\* The plain mappings a caller passes.
PlainInputs ==
  { <<<<K_q, Str(<<"1">>)>>, <<K_u_q, Strs(<<<<"a">>, <<"1">>>>)>>, <<K_u_r, Undefined>>>>,
    <<<<K_q, Str(<<"%">>)>>, <<K_u_q, Str(T_true)>>>>,
    <<<<K_q, Str(<<"a">>)>>, <<K_u_q, Str(<<"%">>)>>>>,
    <<<<K_q, Strs(<<>>)>>, <<K_u_q, Str(<<"7">>)>>>> }

\* URLSearchParams.set(name, value): the first entry of that name takes the value
\* and the others go; a new name is appended.
SearchParamsSet(entries, name, value) ==
  IF \E i \in 1..Len(entries) : entries[i][1] = name
    THEN LET f == CHOOSE i \in 1..Len(entries) :
                    entries[i][1] = name /\ \A j \in 1..(i - 1) : entries[j][1] # name
             keep == SelectSeq([i \in 1..Len(entries) |-> <<i, entries[i]>>],
                               LAMBDA x : x[1] = f \/ x[2][1] # name)
         IN  [i \in 1..Len(keep) |-> IF keep[i][1] = f THEN <<name, value>> ELSE keep[i][2]]
    ELSE Append(entries, <<name, value>>)

\* The owner of a URLSearchParams instance sets one of its entries.
SourceSet ==
  \E i \in 1..Len(sources), name \in {K_q, K_u_q}, value \in {<<"1">>, <<"a">>} :
    /\ SearchParamsSet(sources[i], name, value) # sources[i]
    /\ sources' = [sources EXCEPT ![i] = SearchParamsSet(sources[i], name, value)]
    /\ last' = [op |-> "sourceSet"]
    /\ UNCHANGED <<heap, serializationCache, deserializationCache, searchParamsCache,
                   config, first, hook, batch>>

\* The state after deserializeUrl(input, uniqueKey) ended as r.
Extracted(input, uniqueKey, r) ==
  /\ Len(r.heap) <= MaxObjs
  /\ deserializationCache' = r.dcache
  /\ searchParamsCache' = r.spcache
  /\ heap' = r.heap
  /\ last' = [op |-> "extract", input |-> input, uniqueKey |-> uniqueKey, ret |-> r.ret]
  /\ UNCHANGED <<serializationCache, sources, config, first, hook, batch>>

\* deserializeUrl(source, uniqueKey).
Extract ==
  \E input \in {Usp(i) : i \in 1..Len(sources)} \cup {Plain(o) : o \in PlainInputs},
     uniqueKey \in Prefixes :
    Extracted(input, uniqueKey,
              deserializeUrl(deserializationCache, searchParamsCache, heap, sources, input,
                             uniqueKey))

\* The caller writes a property of a mapping that deserializeUrl returned.
MutateMapping ==
  \E i \in 1..Len(heap), key \in {K_q}, value \in {Num(1), Str(<<"a">>)} :
    /\ heap[i].k = "obj"
    /\ ObjSet(heap[i].p, key, value) # heap[i].p
    /\ heap' = [heap EXCEPT ![i] = PlainObj(ObjSet(heap[i].p, key, value))]
    /\ last' = [op |-> "mutate"]
    /\ UNCHANGED <<serializationCache, deserializationCache, searchParamsCache, sources,
                   config, first, hook, batch>>

NextExtract ==
  \/ SourceSet
  \/ Extract
  \/ MutateMapping
  \/ ClearUrlStateCaches

\* The caller holds one URLSearchParams instance, created with one of SourceInputs.
InitExtract ==
  /\ heap = <<>>
  /\ serializationCache = EmptyMap
  /\ deserializationCache = EmptyMap
  /\ searchParamsCache = EmptyMap
  /\ sources \in {<<entries>> : entries \in SourceInputs}
  /\ config = EmptyMap
  /\ last = NoCall
  /\ first = NoCall
  /\ hook = Unmounted
  /\ batch = Unmounted

SpecExtract == InitExtract /\ [][NextExtract]_vars

(***************************************************************************)
(* The QueryBuilder (lines 18-100).  config.defaults and config.mappings    *)
(* are plain objects (property lists), config.ignored an array of names,    *)
(* config.postProcess a function or "undefined".  The functions a caller    *)
(* supplies are named: a mapping is one of Mappers, a post-process one of   *)
(* PostProcessors.                                                          *)
(***************************************************************************)
K_page == <<"p", "a", "g", "e">>

K_pageSize == <<"p", "a", "g", "e", "S", "i", "z", "e">>

K_orderBy == <<"o", "r", "d", "e", "r", "B", "y">>

K_orderDir == <<"o", "r", "d", "e", "r", "D", "i", "r">>

K_sort == <<"s", "o", "r", "t">>

K_debug == <<"d", "e", "b", "u", "g">>

K_toString == <<"t", "o", "S", "t", "r", "i", "n", "g">>

\* JavaScript truthiness.
Truthy(v) ==
  IF v.t = "str" THEN Len(v.s) > 0
  ELSE IF v.t = "num" THEN v.n # 0
  ELSE IF v.t = "bool" THEN v.b
  ELSE v.t \notin {"null", "undefined"}

\* String(v) of a primitive, as a template literal writes it.
ToStr(v) ==
  IF v.t = "str" THEN v.s
  ELSE IF v.t = "num" THEN NumToStr(v.n)
  ELSE IF v.t = "bool" THEN (IF v.b THEN T_true ELSE T_false)
  ELSE IF v.t = "null" THEN <<"n", "u", "l", "l">>
  ELSE <<"u", "n", "d", "e", "f", "i", "n", "e", "d">>

\* typeof v.
TypeOf(v) ==
  IF v.t = "str" THEN <<"s", "t", "r", "i", "n", "g">>
  ELSE IF v.t = "num" THEN <<"n", "u", "m", "b", "e", "r">>
  ELSE IF v.t = "bool" THEN <<"b", "o", "o", "l", "e", "a", "n">>
  ELSE IF v.t = "undefined" THEN <<"u", "n", "d", "e", "f", "i", "n", "e", "d">>
  ELSE <<"o", "b", "j", "e", "c", "t">>

\* The mapping functions of the model: (value) => value and (value) => value || '+'
\* (lines 114-115), (value) => typeof value, and one that throws.
Mappers == {"identity", "orPlus", "typeOf", "throws"}

\* mapper(value): the value returned, or the error thrown.  toString is what
\* Object.prototype gives every plain object: called on config.mappings it
\* answers "[object Object]".
ApplyMapper(mapper, value) ==
  IF mapper = "identity" THEN value
  ELSE IF mapper = "orPlus" THEN (IF Truthy(value) THEN value ELSE Str(<<"+">>))
  ELSE IF mapper = "typeOf" THEN Str(TypeOf(value))
  ELSE IF mapper = "Object.prototype.toString"
    THEN Str(<<"[", "o", "b", "j", "e", "c", "t", " ", "O", "b", "j", "e", "c", "t", "]">>)
  ELSE Thrown("MappingError")

\* The post-process functions of the model: the one of lines 117-122, which writes
\* sort into its argument and returns it; r => ({...r, sort: r.orderDir + r.orderBy}),
\* which returns a new object; and one that throws.
PostProcessors == {"deriveSort", "withSort", "throws"}

SortOf(result) ==
  Str(ToStr(IF ObjHas(result, K_orderDir) THEN ObjGet(result, K_orderDir) ELSE Undefined)
        \o ToStr(IF ObjHas(result, K_orderBy) THEN ObjGet(result, K_orderBy) ELSE Undefined))

\* postProcess(result): whether it throws, the object it returns, whether that
\* object is its argument, and the content it leaves in its argument.
InPlace(out) == [thrown |-> FALSE, o |-> out, same |-> TRUE, arg |-> out]

ApplyPostProcess(fn, result) ==
  IF fn = "deriveSort"
    THEN InPlace(IF ObjHas(result, K_orderBy) /\ Truthy(ObjGet(result, K_orderBy))
                   THEN ObjSet(result, K_sort, SortOf(result))
                   ELSE result)
  ELSE IF fn = "withSort"
    THEN [thrown |-> FALSE, o |-> ObjSet(result, K_sort, SortOf(result)), same |-> FALSE,
          arg |-> result]
  ELSE [thrown |-> TRUE, o |-> <<>>, same |-> FALSE, arg |-> result]

\* Lines 22-28: the defaults of every field, with the fields of the given config
\* spread over them.
NewQueryBuilder(c) ==
  [defaults |-> IF "defaults" \in DOMAIN c THEN c.defaults
                ELSE <<<<K_page, Num(1)>>, <<K_pageSize, Num(10)>>>>,
   ignored |-> IF "ignored" \in DOMAIN c THEN c.ignored ELSE <<>>,
   mappings |-> IF "mappings" \in DOMAIN c THEN c.mappings ELSE <<>>,
   postProcess |-> IF "postProcess" \in DOMAIN c THEN c.postProcess ELSE "undefined"]

\* A setDefaults that replaces the stored defaults.
setDefaultsReplacing(cfg, defaults) == [cfg EXCEPT !.defaults = defaults]

\* Lines 34-37.
setDefaults(cfg, defaults) ==
  [cfg EXCEPT !.defaults = ObjAssign(cfg.defaults, defaults)]

\* Lines 42-45.
ignore(cfg, properties) == [cfg EXCEPT !.ignored = cfg.ignored \o properties]

\* Lines 50-53.
addMapping(cfg, property, mapper) ==
  [cfg EXCEPT !.mappings = ObjSet(cfg.mappings, property, mapper)]

\* Lines 71-72: the properties build writes before the configured defaults.
BuiltInDefaults == <<<<K_page, Num(1)>>, <<K_pageSize, Num(10)>>>>

\* A build that starts from the configured defaults alone.
BuildStartFromDefaults(cfg) == cfg.defaults

\* Lines 70-74: the object build starts from.
BuildStart(cfg) == ObjAssign(BuiltInDefaults, cfg.defaults)

\* A build that writes into the stored defaults.
SharedResultObject == "defaults"

\* Line 70: the object the result variable names: "new" is the object the literal
\* creates; "defaults" and "params" would be the stored defaults and the input.
ResultObject == "new"

\* A build that ignores nothing.
NeverIgnored(cfg, key) == FALSE

\* Line 80.
IsIgnored(cfg, key) == \E i \in 1..Len(cfg.ignored) : cfg.ignored[i] = key

\* The names every plain object inherits from Object.prototype, among the keys of
\* the model.
ObjectPrototypeKeys == {K_toString}

\* Line 85: config.mappings[key], "undefined" when there is none.
MappingOf(cfg, key) ==
  IF ObjHas(cfg.mappings, key) THEN ObjGet(cfg.mappings, key)
  ELSE IF key \in ObjectPrototypeKeys THEN "Object.prototype.toString"
  ELSE "undefined"

RECURSIVE ProcessParams(_, _, _)
RECURSIVE ProcessMapped(_, _, _, _)
\* A build that catches a mapping's error and leaves the key out.
ProcessMappedCaught(cfg, entries, result, mapped) ==
  IF mapped.t = "throw" THEN ProcessParams(cfg, Tail(entries), result)
  ELSE ProcessParams(cfg, Tail(entries), ObjSet(result, entries[1][1], mapped))

\* Lines 77-91: every entry of params in order, written into result; a mapping
\* that throws ends the loop.
ProcessParams(cfg, entries, result) ==
  IF Len(entries) = 0 THEN [thrown |-> FALSE, err |-> "", result |-> result]
  ELSE IF entries[1][2].t = "undefined" \/ IsIgnored(cfg, entries[1][1])
    THEN ProcessParams(cfg, Tail(entries), result)
  ELSE IF MappingOf(cfg, entries[1][1]) # "undefined"
    THEN ProcessMapped(cfg, entries, result,
                       ApplyMapper(MappingOf(cfg, entries[1][1]), entries[1][2]))
  ELSE ProcessParams(cfg, Tail(entries), ObjSet(result, entries[1][1], entries[1][2]))

\* Line 86: the mapping's outcome for the first entry is written, and the loop
\* goes on; its error ends build.
ProcessMapped(cfg, entries, result, mapped) ==
  IF mapped.t = "throw" THEN [thrown |-> TRUE, err |-> mapped.err, result |-> result]
  ELSE ProcessParams(cfg, Tail(entries), ObjSet(result, entries[1][1], mapped))

\* Lines 94-96: whether build calls the post-process.
CallsPostProcess(cfg) == cfg.postProcess # "undefined"

\* A build that drops what the post-process returns.
PostProcessDropped(result, q) == result

\* What build returns after the post-process returned q for the argument result
\* (line 95).
PostProcessed(result, q) == q.o

\* Line 95: the outcome q of postProcess(result).
BuildPostProcessed(r, q) ==
  IF q.thrown
    THEN [ret |-> Thrown("PostProcessError"), retIs |-> "none", pre |-> r.result,
          postCalls |-> 1, postArg |-> r.result, written |-> q.arg]
    ELSE [ret |-> [t |-> "object", o |-> PostProcessed(r.result, q)],
          retIs |-> IF q.same THEN ResultObject ELSE "other", pre |-> r.result,
          postCalls |-> 1, postArg |-> r.result, written |-> q.arg]

\* Lines 93-98, after the loop ended as r.
BuildFinish(cfg, r) ==
  IF r.thrown
    THEN [ret |-> Thrown(r.err), retIs |-> "none", pre |-> r.result, postCalls |-> 0,
          postArg |-> <<>>, written |-> r.result]
  ELSE IF CallsPostProcess(cfg)
    THEN BuildPostProcessed(r, ApplyPostProcess(cfg.postProcess, r.result))
  ELSE [ret |-> [t |-> "object", o |-> r.result], retIs |-> ResultObject,
        pre |-> r.result, postCalls |-> 0, postArg |-> <<>>, written |-> r.result]

\* build(params): ret is the content of the object returned (or the error thrown)
\* and retIs the object it is; pre is the result before post-processing, postCalls
\* and postArg the calls of the post-process and its argument; written is the
\* content left in the object that result names.
build(cfg, params) == BuildFinish(cfg, ProcessParams(cfg, params, BuildStart(cfg)))

(***************************************************************************)
(* The builder's operations.                                                *)
(***************************************************************************)
\* The configs a builder is constructed with: none; defaults of the caller's own;
\* the config of lines 110-123; the same defaults with a post-process that returns
\* a new object; a post-process that throws.
ConfigInputs ==
  { EmptyMap,
    [defaults |-> <<<<K_orderDir, Str(<<"+">>)>>>>],
    [defaults |-> <<<<K_page, Num(1)>>, <<K_pageSize, Num(10)>>>>,
     ignored |-> <<K_debug>>,
     mappings |-> <<<<K_orderBy, "identity">>, <<K_orderDir, "orPlus">>>>,
     postProcess |-> "deriveSort"],
    [defaults |-> <<<<K_orderDir, Str(<<"+">>)>>>>, postProcess |-> "withSort"],
    [postProcess |-> "throws"] }

DefaultsInputs == { <<<<K_page, Num(2)>>>>, <<<<K_debug, Str(<<"o", "f", "f">>)>>>> }

IgnoreInputs == {K_debug, K_page}

MappingInputs == {<<K_debug, "typeOf">>, <<K_page, "typeOf">>, <<K_debug, "throws">>}

\* The mappings passed to build, as Object.entries enumerates them.
ParamsInputs ==
  { <<>>,
    <<<<K_page, Num(3)>>>>,
    <<<<K_debug, Str(<<"x">>)>>, <<K_orderBy, Str(<<"n">>)>>>>,
    <<<<K_orderBy, Undefined>>, <<K_page, Num(3)>>, <<K_debug, Num(0)>>>>,
    <<<<K_toString, Str(<<"x">>)>>>> }

\* The entries of the URLSearchParams instance fromUrl reads, and a plain mapping
\* whose value does not unescape.
BuilderSource ==
  << <<K_debug, <<"x">>>>, <<K_page, <<"3">>>>,
     <<<<"u", "_">> \o K_orderBy, <<"n">>>>, <<<<"u", "_">> \o K_debug, T_true>> >>

BadSource == Plain(<<<<K_page, Str(<<"%">>)>>>>)

InitBuilder ==
  /\ heap = <<>>
  /\ serializationCache = EmptyMap
  /\ deserializationCache = EmptyMap
  /\ searchParamsCache = EmptyMap
  /\ sources = <<BuilderSource>>
  /\ config = NewQueryBuilder(EmptyMap)
  /\ last = NoCall
  /\ first = NoCall
  /\ hook = Unmounted
  /\ batch = Unmounted

\* new QueryBuilder(c).
Construct ==
  \E c \in ConfigInputs :
    /\ config' = NewQueryBuilder(c)
    /\ last' = [op |-> "construct", arg |-> c]
    /\ first' = NoCall
    /\ UNCHANGED <<heap, serializationCache, deserializationCache, searchParamsCache, sources, hook, batch>>

\* builder.setDefaults(d).
SetDefaults ==
  \E d \in DefaultsInputs :
    /\ config' = setDefaults(config, d)
    /\ last' = [op |-> "setDefaults", arg |-> d]
    /\ first' = NoCall
    /\ UNCHANGED <<heap, serializationCache, deserializationCache, searchParamsCache, sources, hook, batch>>

\* builder.ignore(name).
Ignore ==
  \E name \in IgnoreInputs :
    /\ Len(config.ignored) < MaxIgnored
    /\ config' = ignore(config, <<name>>)
    /\ last' = [op |-> "ignore", arg |-> name]
    /\ first' = NoCall
    /\ UNCHANGED <<heap, serializationCache, deserializationCache, searchParamsCache, sources, hook, batch>>

\* builder.addMapping(property, mapper).
AddMapping ==
  \E m \in MappingInputs :
    /\ config' = addMapping(config, m[1], m[2])
    /\ last' = [op |-> "addMapping", arg |-> m]
    /\ first' = NoCall
    /\ UNCHANGED <<heap, serializationCache, deserializationCache, searchParamsCache, sources, hook, batch>>

\* The record of a build call: the call, the config and the input before it, the
\* input after it, and what build did.
BuildRecord(op, cfg, params, b) ==
  [op |-> op, configBefore |-> cfg, input |-> params,
   inputAfter |-> IF ResultObject = "params" THEN b.written ELSE params,
   ret |-> b.ret, retIs |-> b.retIs, pre |-> b.pre, postCalls |-> b.postCalls,
   postArg |-> b.postArg]

\* The config after a build call: build assigns no field of it.
ConfigAfterBuild(cfg, b) ==
  IF ResultObject = "defaults" THEN [cfg EXCEPT !.defaults = b.written] ELSE cfg

\* The first build({}) since the builder was configured, and whether build was
\* called again after it.
FirstAfterBuild(params, b) ==
  IF first.op = "build" THEN [first EXCEPT !.later = TRUE]
  ELSE IF params = <<>> THEN [op |-> "build", ret |-> b.ret, later |-> FALSE]
  ELSE first

\* The state after build(params) ended as b.
Built(op, params, b) ==
  /\ config' = ConfigAfterBuild(config, b)
  /\ last' = BuildRecord(op, config, params, b)
  /\ first' = FirstAfterBuild(params, b)

\* builder.build(params).
Build ==
  \E params \in ParamsInputs :
    /\ Built("build", params, build(config, params))
    /\ UNCHANGED <<heap, serializationCache, deserializationCache, searchParamsCache,
                   sources, hook, batch>>

\* The mapping that an extraction returned.
MappingOfResult(d) == d.heap[d.ret.id].p

\* Whether the extraction cache holds the mapping that an extraction returned.
HeldByCache(d) == \E i \in DOMAIN d.spcache : d.spcache[i] = d.ret

\* The state after fromUrl's extraction ended as d: its error ends fromUrl;
\* otherwise build runs on the mapping it returned.  That mapping is local to
\* fromUrl: after the call it is alive only if the extraction cache holds it.
FromUrlExtracted(d) ==
  /\ Len(d.heap) <= MaxObjs
  /\ deserializationCache' = d.dcache
  /\ searchParamsCache' = d.spcache
  /\ IF d.ret.t = "throw"
       THEN /\ heap' = d.heap
            /\ last' = [op |-> "fromUrl", configBefore |-> config, ret |-> d.ret,
                        retIs |-> "none", extracted |-> FALSE]
            /\ UNCHANGED <<config, first>>
       ELSE /\ heap' = IF HeldByCache(d) THEN d.heap ELSE SubSeq(d.heap, 1, Len(d.heap) - 1)
            /\ Built("fromUrl", MappingOfResult(d), build(config, MappingOfResult(d)))
  /\ UNCHANGED <<serializationCache, sources, hook, batch>>

\* builder.fromUrl(source, uniqueKey) (lines 58-64).
FromUrl ==
  \E input \in {Usp(1), BadSource}, uniqueKey \in Prefixes :
    FromUrlExtracted(deserializeUrl(deserializationCache, searchParamsCache, heap, sources,
                                    input, uniqueKey))

NextBuilder ==
  \/ Construct
  \/ SetDefaults
  \/ Ignore
  \/ AddMapping
  \/ Build
  \/ FromUrl

SpecBuilder == InitBuilder /\ [][NextBuilder]_vars

(***************************************************************************)
(* Two builders constructed from one config object.  The constructor's      *)
(* spread (line 27) copies the fields of the given config, so the array     *)
(* `ignored` and the object `mappings` of the config object, when it has     *)
(* them, are the builder's own: here they are objects of the heap, and       *)
(* config.passed and config.builders[i] name them by reference.              *)
(***************************************************************************)
Builders == {1, 2}

\* The config objects a caller passes, by content.
SharedConfigInputs ==
  { EmptyMap,
    [ignored |-> <<K_debug>>],
    [ignored |-> <<>>, mappings |-> <<<<K_orderBy, "identity">>>>] }

\* The caller's literal {ignored: [...], mappings: {...}}: the objects it creates
\* and the config object that names them.
PassedHeap(c) ==
  (IF "ignored" \in DOMAIN c THEN <<ArrObj(c.ignored)>> ELSE <<>>)
    \o (IF "mappings" \in DOMAIN c THEN <<PlainObj(c.mappings)>> ELSE <<>>)

PassedObject(c) ==
  [f \in DOMAIN c |-> IF f = "ignored" THEN Ref(1) ELSE Ref(Len(PassedHeap(c)))]

\* Lines 23-24: the literals [] and {} of the constructor are new objects unless
\* the given config has the field.
WithIgnored(h, c) == IF "ignored" \in DOMAIN c THEN h ELSE Append(h, ArrObj(<<>>))

WithMappings(h, c) == IF "mappings" \in DOMAIN c THEN h ELSE Append(h, PlainObj(<<>>))

\* Lines 22-28 with objects by reference: the builder's config, whose ignored
\* and mappings are the given config's when it has them.
ConstructedConfig(h, c) ==
  [defaults |-> BuiltInDefaults,
   ignored |-> IF "ignored" \in DOMAIN c THEN c.ignored ELSE Ref(Len(WithIgnored(h, c))),
   mappings |-> IF "mappings" \in DOMAIN c THEN c.mappings
                ELSE Ref(Len(WithMappings(WithIgnored(h, c), c))),
   postProcess |-> "undefined"]

ConstructedHeap(h, c) == WithMappings(WithIgnored(h, c), c)

\* The config of a builder by content, as build reads it.
ConfigValue(h, b) ==
  [defaults |-> b.defaults, ignored |-> h[b.ignored.id].e, mappings |-> h[b.mappings.id].p,
   postProcess |-> b.postProcess]

\* The config object the caller passed, by content.
PassedValue(h, c) ==
  [f \in DOMAIN c |-> IF f = "ignored" THEN h[c[f].id].e ELSE h[c[f].id].p]

\* Both builders are constructed from the config object c, one after the other.
SharedConstructed(c) ==
  /\ heap = ConstructedHeap(ConstructedHeap(PassedHeap(c), PassedObject(c)), PassedObject(c))
  /\ config = [passed |-> PassedObject(c),
               builders |-> <<ConstructedConfig(PassedHeap(c), PassedObject(c)),
                              ConstructedConfig(ConstructedHeap(PassedHeap(c), PassedObject(c)),
                                                PassedObject(c))>>]

InitShared ==
  /\ \E c \in SharedConfigInputs : SharedConstructed(c)
  /\ serializationCache = EmptyMap
  /\ deserializationCache = EmptyMap
  /\ searchParamsCache = EmptyMap
  /\ sources = <<>>
  /\ last = NoCall
  /\ first = NoCall
  /\ hook = Unmounted
  /\ batch = Unmounted

\* Line 43 on builder i: push writes into the array the builder's config names.
SharedIgnore ==
  \E i \in Builders, name \in IgnoreInputs :
    /\ Len(heap[config.builders[i].ignored.id].e) < MaxIgnored
    /\ heap' = [heap EXCEPT ![config.builders[i].ignored.id] =
                  ArrObj(ignore(ConfigValue(heap, config.builders[i]), <<name>>).ignored)]
    /\ last' = [op |-> "ignore", who |-> i, arg |-> name]
    /\ UNCHANGED <<serializationCache, deserializationCache, searchParamsCache, sources,
                   config, first, hook, batch>>

\* Line 51 on builder i: the assignment writes into the object the builder's
\* config names.
SharedAddMapping ==
  \E i \in Builders, m \in MappingInputs :
    /\ heap' = [heap EXCEPT ![config.builders[i].mappings.id] =
                  PlainObj(addMapping(ConfigValue(heap, config.builders[i]), m[1], m[2]).mappings)]
    /\ last' = [op |-> "addMapping", who |-> i, arg |-> m]
    /\ UNCHANGED <<serializationCache, deserializationCache, searchParamsCache, sources,
                   config, first, hook, batch>>

\* build(params) on builder i.
SharedBuild ==
  \E i \in Builders, params \in ParamsInputs :
    /\ last' = [op |-> "build", who |-> i, input |-> params,
                ret |-> build(ConfigValue(heap, config.builders[i]), params).ret]
    /\ UNCHANGED <<heap, serializationCache, deserializationCache, searchParamsCache,
                   sources, config, first, hook, batch>>

NextShared ==
  \/ SharedIgnore
  \/ SharedAddMapping
  \/ SharedBuild

SpecShared == InitShared /\ [][NextShared]_vars

(***************************************************************************)
(* useUrlState (src/README.md, lines 383-527).  The location is the list of *)
(* <<name, string>> parameters the router was last pushed to; a render      *)
(* gives every instance the parameters of the location at that moment       *)
(* (useSearchParams), and the callbacks of an instance read the parameters  *)
(* of the render that created them.  params.toString() followed by the      *)
(* router's parsing of the new URL gives back the same parameters, so a     *)
(* push is modelled by the parameters pushed.                               *)
(***************************************************************************)
\* Line 415: the capacity of an instance's cache of deserialized values.
HOOK_CACHE_SIZE == 100

\* URLSearchParams.get(name): the first value of that name, or null.
SearchParamsGet(entries, name) ==
  IF \E i \in DOMAIN entries : entries[i][1] = name
    THEN Str(entries[CHOOSE i \in DOMAIN entries :
                       entries[i][1] = name /\ \A j \in 1..(i - 1) : entries[j][1] # name][2])
    ELSE Null

\* URLSearchParams.delete(name): every entry of that name goes.
SearchParamsDelete(entries, name) == SelectSeq(entries, LAMBDA e : e[1] # name)

RECURSIVE StateEntries(_, _, _, _, _, _)
RECURSIVE StateDecoded(_, _, _, _, _, _)
\* Lines 401-423: every parameter whose name starts with uniqueKey, in order, is
\* written into result under its name without the prefix: the value the
\* instance's cache holds for its string, else what deserializeUrl returns.
StateEntries(cache, dcache, h, entries, uniqueKey, result) ==
  IF Len(entries) = 0
    THEN [state |-> result, cache |-> cache, dcache |-> dcache, heap |-> h]
  ELSE IF ~StartsWith(entries[1][1], uniqueKey)
    THEN StateEntries(cache, dcache, h, Tail(entries), uniqueKey, result)
  ELSE IF entries[1][2] \in DOMAIN cache
    THEN StateEntries(cache, dcache, h, Tail(entries), uniqueKey,
                      ObjSet(result,
                             SubSeq(entries[1][1], Len(uniqueKey) + 1, Len(entries[1][1])),
                             cache[entries[1][2]]))
  ELSE StateDecoded(deserializeUrlValue(dcache, h, entries[1][2]), cache, h, entries,
                    uniqueKey, result)

\* Lines 410-421: the outcome r of deserializeUrl(value) for the first parameter:
\* its value is written and stored in the instance's cache while that has room
\* and the string is not empty; when it threw, the string itself is written.
StateDecoded(r, cache, h, entries, uniqueKey, result) ==
  IF r.ret.t = "throw"
    THEN StateEntries(cache, r.cache, r.heap, Tail(entries), uniqueKey,
                      ObjSet(result,
                             SubSeq(entries[1][1], Len(uniqueKey) + 1, Len(entries[1][1])),
                             Str(entries[1][2])))
    ELSE StateEntries(IF Cardinality(DOMAIN cache) < HOOK_CACHE_SIZE /\ Len(entries[1][2]) > 0
                        THEN MapSet(cache, entries[1][2], r.ret)
                        ELSE cache,
                      r.cache, r.heap, Tail(entries), uniqueKey,
                      ObjSet(result,
                             SubSeq(entries[1][1], Len(uniqueKey) + 1, Len(entries[1][1])),
                             r.ret))

\* The state without the test of line 402: every parameter is the instance's.
UseUrlStateStateUnfiltered(cache, dcache, h, entries, uniqueKey) ==
  StateEntries(cache, dcache, h, entries, <<>>, <<>>)

\* Lines 392-426: the state of an instance for the parameters of a render, with
\* the instance's cache, the decode cache and the heap afterwards: empty for the
\* empty unique key.
UseUrlStateState(cache, dcache, h, entries, uniqueKey) ==
  IF Len(uniqueKey) = 0
    THEN [state |-> <<>>, cache |-> cache, dcache |-> dcache, heap |-> h]
    ELSE StateEntries(cache, dcache, h, entries, uniqueKey, <<>>)

\* Lines 429-435.
shouldRemoveParam(h, value) ==
  \/ value.t = "str" /\ Len(value.s) = 0
  \/ value.t \in {"null", "undefined"}
  \/ value.t = "ref" /\ h[value.id].k = "arr" /\ Len(h[value.id].e) = 0
  \/ value.t = "ref" /\ h[value.id].k = "obj" /\ Len(h[value.id].p) = 0
  \/ value.t = "ref" /\ h[value.id].k = "date"
  \/ value.t = "bool" /\ ~value.b

RECURSIVE ApplyUpdates(_, _, _, _, _, _)
RECURSIVE ApplySerialized(_, _, _, _, _, _)
\* Lines 449-465: every entry of updates in order, applied to the copy params of
\* the render's parameters; an error of serializeUrl ends the loop.
ApplyUpdates(scache, h, params, updates, uniqueKey, hasChanges) ==
  IF Len(updates) = 0
    THEN [thrown |-> FALSE, params |-> params, hasChanges |-> hasChanges, cache |-> scache]
  ELSE IF shouldRemoveParam(h, updates[1][2])
    THEN IF SearchParamsGet(params, uniqueKey \o updates[1][1]) # Null
           THEN ApplyUpdates(scache, h,
                             SearchParamsDelete(params, uniqueKey \o updates[1][1]),
                             Tail(updates), uniqueKey, TRUE)
           ELSE ApplyUpdates(scache, h, params, Tail(updates), uniqueKey, hasChanges)
  ELSE ApplySerialized(serializeUrl(scache, h, updates[1][2]), h, params, updates,
                       uniqueKey, hasChanges)

\* Lines 459-463: the outcome e of serializeUrl(value) for the first entry.
ApplySerialized(e, h, params, updates, uniqueKey, hasChanges) ==
  IF e.ret.t = "throw"
    THEN [thrown |-> TRUE, params |-> params, hasChanges |-> hasChanges, cache |-> e.cache]
  ELSE IF SearchParamsGet(params, uniqueKey \o updates[1][1]) # e.ret
    THEN ApplyUpdates(e.cache, h,
                      SearchParamsSet(params, uniqueKey \o updates[1][1], e.ret.s),
                      Tail(updates), uniqueKey, TRUE)
  ELSE ApplyUpdates(e.cache, h, params, Tail(updates), uniqueKey, hasChanges)

\* updateUrl(updates) (lines 438-475) of an instance rendered with searchParams:
\* whether it threw, the parameters it built, whether it pushes them, and the
\* encode cache afterwards.
updateUrl(scache, h, searchParams, updates, uniqueKey) ==
  IF Len(updates) = 0
    THEN [thrown |-> FALSE, params |-> searchParams, hasChanges |-> FALSE, cache |-> scache]
    ELSE ApplyUpdates(scache, h, searchParams, updates, uniqueKey, FALSE)

RECURSIVE UndefinedFor(_)
\* Lines 501-504 and 511-514: the updates that give undefined to every key.
UndefinedFor(keys) ==
  IF Len(keys) = 0 THEN <<>>
  ELSE ObjSet(UndefinedFor(SubSeq(keys, 1, Len(keys) - 1)), keys[Len(keys)], Undefined)

\* Object.keys of a plain object, in order.
KeysOf(o) == [i \in 1..Len(o) |-> o[i][1]]

(***************************************************************************)
(* The component that uses useUrlState: two instances with the unique keys  *)
(* hook.keys on one location.  hook.rendered are the parameters of the last  *)
(* render, hook.state and hook.caches the state and the cache of each        *)
(* instance, hook.since the instances that pushed since that render.         *)
(***************************************************************************)
Instances == {1, 2}

\* The render of two instances whose states were computed as r1 and r2.
RenderBoth(keys, entries, r1, r2) ==
  [hook |-> [mounted |-> TRUE, keys |-> keys, location |-> entries, rendered |-> entries,
             caches |-> <<r1.cache, r2.cache>>, state |-> <<r1.state, r2.state>>,
             since |-> {}],
   dcache |-> r2.dcache, heap |-> r2.heap]

\* The second instance renders after the first, whose state was computed as r1.
RenderSecond(keys, entries, caches, r1) ==
  RenderBoth(keys, entries, r1,
             UseUrlStateState(caches[2], r1.dcache, r1.heap, entries, keys[2]))

\* A render of the component for the parameters `entries`: the component, the
\* decode cache and the heap afterwards.
RenderComponent(keys, entries, caches, dcache, h) ==
  RenderSecond(keys, entries, caches, UseUrlStateState(caches[1], dcache, h, entries, keys[1]))

\* The pairs of unique keys: disjoint, one a prefix of the other, one empty.
UniqueKeyInputs ==
  { << <<"u", "_">>, <<"i", "_">> >>,
    << <<"u", "_">>, <<"u", "_", "a">> >>,
    << <<>>, <<"u", "_">> >> }

\* The parameters of the location the component is mounted on.
LocationInputs ==
  { <<>>, << <<<<"u", "_", "a">>, <<"x">>>>, <<<<"i", "_", "a">>, <<"0">>>> >>,
    << <<<<"u", "_", "b">>, <<"%">>>> >> }

\* The values a caller holds: [], {} and new Date(0).
HookHeap == <<ArrObj(<<>>), PlainObj(<<>>), DateObj>>

ItemKeys == {<<"a">>}

ItemValues ==
  { Str(<<>>), Null, Undefined, Bool(FALSE), Ref(1), Ref(2), Ref(3),
    Str(<<"x">>), Str(<<LoneSurrogate>>) }

\* The items the first instance sets at once.
SetItemsInputs ==
  { <<>>,
    << <<<<"a">>, Null>>, <<<<"b">>, Num(0)>> >> }

DeleteItemsInputs == { << <<"a">> >>, << <<"a">>, <<"b">> >> }

\* The component as first rendered.
Mounted(r) ==
  /\ hook = r.hook
  /\ deserializationCache = r.dcache
  /\ heap = r.heap

InitHook ==
  /\ \E keys \in UniqueKeyInputs, entries \in LocationInputs :
       Mounted(RenderComponent(keys, entries, <<EmptyMap, EmptyMap>>, EmptyMap, HookHeap))
  /\ serializationCache = EmptyMap
  /\ searchParamsCache = EmptyMap
  /\ sources = <<>>
  /\ config = EmptyMap
  /\ last = NoCall
  /\ first = NoCall
  /\ batch = Unmounted

\* The state after a render ended as r.
Rendered(r) ==
  /\ hook' = r.hook
  /\ deserializationCache' = r.dcache
  /\ heap' = r.heap
  /\ last' = [op |-> "render"]
  /\ UNCHANGED <<serializationCache, searchParamsCache, sources, config, first>>

\* The navigation is applied: the component renders with the parameters of the
\* location.
Render ==
  /\ hook.location # hook.rendered
  /\ Rendered(RenderComponent(hook.keys, hook.location, hook.caches,
                              deserializationCache, heap))
  /\ UNCHANGED batch

\* Lines 468-472: the state after updateUrl(updates) of instance i ended as u:
\* the parameters it built are pushed when something changed.
Updated(i, op, updates, u) ==
  /\ serializationCache' = u.cache
  /\ hook' = IF ~u.thrown /\ u.hasChanges
               THEN [hook EXCEPT !.location = u.params, !.since = @ \cup {i}]
               ELSE hook
  /\ last' = [op |-> op, who |-> i, updates |-> updates,
              pushed |-> ~u.thrown /\ u.hasChanges,
              ret |-> IF u.thrown THEN Thrown("URIError") ELSE Undefined]
  /\ UNCHANGED <<heap, deserializationCache, searchParamsCache, sources, config, first>>

\* updateUrl(updates) of instance i, as the callbacks of the last render call it.
UpdateUrl(i, op, updates) ==
  Updated(i, op, updates,
          updateUrl(serializationCache, heap, hook.rendered, updates, hook.keys[i]))

\* setItem(key, value) (lines 478-483).
SetItem ==
  /\ \E i \in Instances, key \in ItemKeys, value \in ItemValues :
       UpdateUrl(i, "setItem", <<<<key, value>>>>)
  /\ UNCHANGED batch

\* setItems(items) (lines 485-490).
SetItems ==
  /\ \E items \in SetItemsInputs : UpdateUrl(1, "setItems", items)
  /\ UNCHANGED batch

\* deleteItem(key) (lines 492-497).
DeleteItem ==
  /\ \E i \in Instances, key \in ItemKeys :
       UpdateUrl(i, "deleteItem", <<<<key, Undefined>>>>)
  /\ UNCHANGED batch

\* deleteItems(keys) (lines 499-508).
DeleteItems ==
  /\ \E i \in Instances, keys \in DeleteItemsInputs :
       UpdateUrl(i, "deleteItems", UndefinedFor(keys))
  /\ UNCHANGED batch

\* deleteAllItems() (lines 510-516): the keys of the instance's state.
DeleteAllItems ==
  /\ \E i \in Instances :
       UpdateUrl(i, "deleteAllItems", UndefinedFor(KeysOf(hook.state[i])))
  /\ UNCHANGED batch

NextHook ==
  \/ Render
  \/ SetItem
  \/ SetItems
  \/ DeleteItem
  \/ DeleteItems
  \/ DeleteAllItems

SpecHook == InitHook /\ [][NextHook]_vars

(***************************************************************************)
(* useUrlStateBatch (src/README.md, lines 533-632): one instance on one     *)
(* location.  batch.pending is the value of the pendingUpdates state with    *)
(* every queued updater applied; batch.renderedPending, batch.rendered and   *)
(* batch.urlState are the pendingUpdates, the parameters and the URL state   *)
(* of the last render, which the callbacks of that render read.  batch.timer *)
(* is the timeout batchTimer.current names while it has not fired: it holds  *)
(* the flushPendingUpdates of the render whose callback set it.              *)
(* batch.handed are the updates handed to the hook that no call of the       *)
(* underlying setItems has received yet.                                     *)
(***************************************************************************)
MaxBatchCalls == 3

BatchKey == <<"u", "_">>

NoTimer == [set |-> FALSE]

BatchKeys == {<<"a">>, <<"b">>}

BatchValues == {Str(<<"x">>), Null}

BatchSetItemsInputs == { <<>>, << <<<<"a">>, Str(<<"y">>)>>, <<<<"b">>, Str(<<"x">>)>> >> }

BatchDeleteItemsInputs == { << <<"a">>, <<"b">> >> }

BatchLocationInputs == { <<>>, << <<<<"u", "_", "a">>, <<"x">>>> >> }

\* The first render of the hook on the parameters `entries`, whose URL state
\* was computed as r.
BatchMounted(entries, r) ==
  /\ batch = [mounted |-> TRUE, location |-> entries, rendered |-> entries,
              cache |-> r.cache, urlState |-> r.state,
              pending |-> <<>>, renderedPending |-> <<>>, timer |-> NoTimer,
              handed |-> <<>>, calls |-> 0]
  /\ deserializationCache = r.dcache
  /\ heap = r.heap

InitBatch ==
  /\ \E entries \in BatchLocationInputs :
       BatchMounted(entries, UseUrlStateState(EmptyMap, EmptyMap, <<>>, entries, BatchKey))
  /\ serializationCache = EmptyMap
  /\ searchParamsCache = EmptyMap
  /\ sources = <<>>
  /\ config = EmptyMap
  /\ last = NoCall
  /\ first = NoCall
  /\ hook = Unmounted

\* Lines 543-546: the state a render returns.
MergedState(urlState, pendingUpdates) == ObjAssign(urlState, pendingUpdates)

\* The flushPendingUpdates and the setItems a render creates: they read the
\* pendingUpdates and the parameters of that render.
RenderClosure == [set |-> TRUE, pending |-> batch.renderedPending, params |-> batch.rendered]

\* Lines 556-562 (and 566-572, 576-582, 590-596, 604-610): a batch callback of
\* the last render queues the updater that merges `updates` into pendingUpdates,
\* clears the timeout and sets one for the flushPendingUpdates of its render.
BatchCalled(op, updates) ==
  /\ batch.mounted
  /\ batch.calls < MaxBatchCalls
  /\ batch' = [batch EXCEPT !.pending = ObjAssign(@, updates),
                            !.handed = ObjAssign(@, updates),
                            !.timer = RenderClosure,
                            !.calls = @ + 1]
  /\ last' = [op |-> op]
  /\ UNCHANGED <<heap, serializationCache, deserializationCache, searchParamsCache,
                 sources, config, first, hook>>

\* setItem of useUrlStateBatch (lines 555-563).
BatchSetItem ==
  \E key \in BatchKeys, value \in BatchValues : BatchCalled("batchSetItem", <<<<key, value>>>>)

\* setItems of useUrlStateBatch (lines 565-573).
BatchSetItems == \E items \in BatchSetItemsInputs : BatchCalled("batchSetItems", items)

\* deleteItem of useUrlStateBatch (lines 575-583).
BatchDeleteItem ==
  \E key \in BatchKeys : BatchCalled("batchDeleteItem", <<<<key, Undefined>>>>)

\* deleteItems of useUrlStateBatch (lines 585-597).
BatchDeleteItems ==
  \E keys \in BatchDeleteItemsInputs : BatchCalled("batchDeleteItems", UndefinedFor(keys))

\* deleteAllItems of useUrlStateBatch (lines 599-611): the keys of the state of
\* the last render.
BatchDeleteAllItems ==
  BatchCalled("batchDeleteAllItems",
              UndefinedFor(KeysOf(MergedState(batch.urlState, batch.renderedPending))))

\* The updates of `handed` that setItems(items) did not receive.
NotReceived(handed, items) ==
  SelectSeq(handed, LAMBDA e : ~(ObjHas(items, e[1]) /\ ObjGet(items, e[1]) = e[2]))

\* Lines 549-552 for a flushPendingUpdates that read `pending`, when its
\* setItems(pending) ended as u: the navigation of updateUrl, then the updater
\* that empties pendingUpdates; an error of setItems ends the call before it.
FlushedAs(op, pending, u, timer) ==
  /\ serializationCache' = u.cache
  /\ batch' = IF u.thrown THEN [batch EXCEPT !.timer = timer]
              ELSE [batch EXCEPT !.location = IF u.hasChanges THEN u.params ELSE @,
                                 !.pending = <<>>,
                                 !.handed = NotReceived(@, pending),
                                 !.timer = timer]
  /\ last' = [op |-> op]
  /\ UNCHANGED <<heap, deserializationCache, searchParamsCache, sources, config, first, hook>>

\* flushPendingUpdates (lines 548-553) of the render `closure` names; `timer` is
\* the timeout afterwards.
Flush(op, closure, timer) ==
  IF Len(closure.pending) > 0
    THEN FlushedAs(op, closure.pending,
                   updateUrl(serializationCache, heap, closure.params, closure.pending,
                             BatchKey),
                   timer)
    ELSE /\ batch' = [batch EXCEPT !.timer = timer]
         /\ last' = [op |-> op]
         /\ UNCHANGED <<heap, serializationCache, deserializationCache, searchParamsCache,
                        sources, config, first, hook>>

\* batchDelayMs elapsed since the last batch call: the timeout runs the
\* flushPendingUpdates it was set for.
TimerFires ==
  /\ batch.mounted
  /\ batch.timer.set
  /\ Flush("timer", batch.timer, NoTimer)

\* The caller runs the flushPendingUpdates the last render returned.
FlushPendingUpdates ==
  /\ batch.mounted
  /\ batch.calls < MaxBatchCalls
  /\ Flush("flushPendingUpdates", RenderClosure, batch.timer)

\* The state of the hook after a render whose URL state was computed as r.
BatchRendered(r) ==
  /\ batch' = [batch EXCEPT !.rendered = batch.location,
                            !.renderedPending = batch.pending,
                            !.cache = r.cache,
                            !.urlState = r.state]
  /\ deserializationCache' = r.dcache
  /\ heap' = r.heap
  /\ last' = [op |-> "render"]
  /\ UNCHANGED <<serializationCache, searchParamsCache, sources, config, first, hook>>

\* The component renders again after a navigation or a change of pendingUpdates.
RenderBatch ==
  /\ batch.mounted
  /\ batch.location # batch.rendered \/ batch.pending # batch.renderedPending
  /\ BatchRendered(UseUrlStateState(batch.cache, deserializationCache, heap,
                                    batch.location, BatchKey))

\* The component unmounts: the cleanup of lines 614-620 clears the timeout.
Unmount ==
  /\ batch.mounted
  /\ batch' = Unmounted
  /\ last' = [op |-> "unmount"]
  /\ UNCHANGED <<heap, serializationCache, deserializationCache, searchParamsCache,
                 sources, config, first, hook>>

NextBatch ==
  \/ BatchSetItem
  \/ BatchSetItems
  \/ BatchDeleteItem
  \/ BatchDeleteItems
  \/ BatchDeleteAllItems
  \/ TimerFires
  \/ FlushPendingUpdates
  \/ RenderBatch
  \/ Unmount

\* React renders a component whose state or location changed, and a timeout
\* that is not cleared fires.
SpecBatch == InitBatch /\ [][NextBatch]_vars /\ WF_vars(RenderBatch) /\ WF_vars(TimerFires)

(***************************************************************************)
(* Claims about the codec and the extractor.                                *)
(***************************************************************************)
\* The values the round-trip law is stated for: strings (of characters a URL can
\* carry), numbers, booleans, null and arrays.
Representable(h, v) ==
  \/ v.t = "str" /\ \A i \in 1..Len(v.s) : v.s[i] # LoneSurrogate
  \/ v.t \in {"num", "bool", "null"}
  \/ v.t = "ref" /\ h[v.id].k = "arr"

\* The content of the value a call returned.
DeepOfResult(r) == Deep(r.heap, r.ret)

\* Whether a text unescapes but its structural deserialization fails.
FailsStructurally(d) == d.ok /\ ~LooksSimple(d.s) /\ ~deserialize(d.s).ok

\* C1: round trip: for every representable value v, deserializeUrl(serializeUrl(v))
\* returns a value equal to v by value.
C1_RoundTrip ==
  (last.op = "roundTrip" /\ Representable(heap, last.arg))
    => (last.ret.t # "throw" /\ Deep(heap, last.ret) = last.was)

\* C2: the codec never raises: serializeUrl returns a string for every value, and
\* deserializeUrl returns a value for every text; when the unescape step or the
\* structural deserialization fails, the value is the unescaped raw text.
C2_NeverRaises ==
  /\ last.op = "serializeUrl" => last.ret.t = "str"
  /\ last.op = "deserializeUrl" => last.ret.t # "throw"
  /\ (last.op = "deserializeUrl" /\ FailsStructurally(decodeURIComponent(last.arg)))
       => last.ret = Unescaped(decodeURIComponent(last.arg))

\* C3: encode-cache transparency: whatever calls, resets and changes of content
\* came before, serializeUrl(v) returns the string that a computation with an
\* empty encode cache returns for the content v has now.
C3_EncodeCacheTransparent ==
  last.op = "serializeUrl" => last.ret = serializeUrl(EmptyMap, heap, last.arg).ret

\* C4: decode-cache transparency: whatever calls, resets and changes of returned
\* values came before, deserializeUrl(s) returns a value equal to the one computed
\* for s with an empty decode cache.
C4_DecodeCacheTransparent ==
  (last.op = "deserializeUrl" /\ last.ret.t # "throw")
    => Deep(heap, last.ret) = DeepOfResult(deserializeUrlValue(EmptyMap, heap, last.arg))

\* C5: extraction-cache transparency: deserializeUrl(source) of a URLSearchParams
\* source without a prefix returns a mapping equal to a fresh, uncached extraction
\* of the entries the source holds now; a call with a prefix neither reads nor
\* writes the extraction cache (its result is not a mapping the cache holds).
C5_ExtractionCacheTransparent ==
  /\ (last.op = "extract" /\ last.input.t = "usp" /\ Len(last.uniqueKey) = 0
        /\ last.ret.t # "throw")
       => Deep(heap, last.ret)
            = DeepOfResult(deserializeUrl(EmptyMap, EmptyMap, heap, sources, last.input, <<>>))
  /\ (last.op = "extract" /\ Len(last.uniqueKey) > 0 /\ last.ret.t # "throw")
       => \A i \in DOMAIN searchParamsCache : searchParamsCache[i] # last.ret

\* The entries of a mapping by content.
DeepEntries(h, state) == [j \in DOMAIN state |-> <<state[j][1], Deep(h, state[j][2])>>]

\* The name of an entry without the prefix u.
Stripped(name, u) == SubSeq(name, Len(u) + 1, Len(name))

\* The mapping p holds exactly the entries whose name starts with the prefix u,
\* each under its name without the prefix and with the decode of its string.
HoldsPrefixed(h, p, entries, u) ==
  /\ \A i \in DOMAIN p : \E j \in DOMAIN entries : entries[j][1] = u \o p[i][1]
  /\ \A j \in DOMAIN entries :
       StartsWith(entries[j][1], u)
         => /\ ObjHas(p, Stripped(entries[j][1], u))
            /\ Deep(h, ObjGet(p, Stripped(entries[j][1], u)))
                 = DeepOfResult(DecodeEntry(EmptyMap, h, entries[j][2]))

\* C11: prefix extraction: for a non-empty prefix p, deserializeUrl(source, p)
\* returns a mapping that has an entry for key k exactly when the source has a
\* defined entry named p+k, with the decode of that entry's string as its value;
\* no entry whose name does not start with p contributes.
C11_PrefixExtraction ==
  (last.op = "extract" /\ Len(last.uniqueKey) > 0)
    => /\ last.ret.t = "ref"
       /\ HoldsPrefixed(heap, heap[last.ret.id].p, EntriesOf(sources, last.input),
                        last.uniqueKey)

\* The strings a plain mapping holds: the single strings and the elements of
\* the arrays.
StringsOf(o) ==
  {o[j][2].s : j \in {i \in DOMAIN o : o[i][2].t = "str"}}
    \cup UNION {{o[j][2].a[n] : n \in DOMAIN o[j][2].a} : j \in {i \in DOMAIN o : o[i][2].t = "strs"}}

\* The value v (in heap h) is the decode of the string s.
IsDecodeOf(h, v, s) == Deep(h, v) = DeepOfResult(deserializeUrlValue(EmptyMap, h, s))

\* The string a plain mapping gives for a defined value: the single string, or
\* the first element of an array.
StringGiven(value) == IF value.t = "strs" THEN value.a[1] ELSE value.s

\* The mapping p is the extraction without prefix of the plain mapping o.
HoldsPlain(h, p, o) ==
  \A j \in DOMAIN o :
    IF o[j][2].t = "undefined" THEN ~ObjHas(p, o[j][1])
    ELSE /\ ObjHas(p, o[j][1])
         /\ o[j][2].t = "strs" => Len(o[j][2].a) > 0
         /\ IsDecodeOf(h, ObjGet(p, o[j][1]), StringGiven(o[j][2]))

\* C21: extraction from a plain mapping: the result has no entry for a key whose
\* value is undefined, for every other key it holds the decode of the key's
\* single string or of the first element of its array, and every entry of the
\* result is the decode of a string taken from the source.
C21_PlainExtraction ==
  (last.op = "extract" /\ last.input.t = "plain")
    => /\ last.ret.t = "ref"
       /\ Len(last.uniqueKey) = 0 => HoldsPlain(heap, heap[last.ret.id].p, last.input.o)
       /\ \A i \in DOMAIN heap[last.ret.id].p :
            \E s \in StringsOf(last.input.o) : IsDecodeOf(heap, heap[last.ret.id].p[i][2], s)

\* The strings an entries view holds under a name, in occurrence order.
ValuesUnder(entries, name) ==
  [n \in 1..Len(SelectSeq(entries, LAMBDA e : e[1] = name))
     |-> SelectSeq(entries, LAMBDA e : e[1] = name)[n][2]]

\* The value the plain mapping holds for a name of the entries view: the string
\* of a single occurrence, the array of the strings of several.
PlainValueOf(entries, name) ==
  IF Len(ValuesUnder(entries, name)) = 1 THEN Str(ValuesUnder(entries, name)[1])
  ELSE Strs(ValuesUnder(entries, name))

\* The first occurrences of the names of an entries view, in order.
FirstOccurrences(entries) ==
  SelectSeq(entries,
            LAMBDA e : e = entries[CHOOSE i \in DOMAIN entries :
                                     entries[i][1] = e[1]
                                       /\ \A j \in 1..(i - 1) : entries[j][1] # e[1]])

\* The plain mapping that has the keys and values of an entries view.
PlainOf(entries) ==
  [n \in 1..Len(FirstOccurrences(entries))
     |-> <<FirstOccurrences(entries)[n][1],
           PlainValueOf(entries, FirstOccurrences(entries)[n][1])>>]

\* Two calls of deserializeUrl ended alike: both threw, or both returned mappings
\* with the same keys and equal values.
SameOutcome(r1, r2) ==
  IF r1.ret.t = "throw" \/ r2.ret.t = "throw" THEN r1.ret = r2.ret
  ELSE AsMap(DeepEntries(r1.heap, r1.heap[r1.ret.id].p))
         = AsMap(DeepEntries(r2.heap, r2.heap[r2.ret.id].p))

\* The mapping p holds, for every kept name of the entries view, the decode of
\* the last string under that name.
LastWins(h, p, entries, u) ==
  \A j \in DOMAIN entries :
    KeepsKey(entries[j][1], u)
      => /\ ObjHas(p, Stripped(entries[j][1], u))
         /\ IsDecodeOf(h, ObjGet(p, Stripped(entries[j][1], u)),
                       ValuesUnder(entries, entries[j][1])[Len(ValuesUnder(entries, entries[j][1]))])

\* The same for the mapping a call of deserializeUrl returned as r.
LastWinsIn(r, entries, u) ==
  r.ret.t = "ref" => LastWins(r.heap, r.heap[r.ret.id].p, entries, u)

\* C25: source-form equivalence: deserializeUrl returns equal mappings for a
\* URLSearchParams source and for the plain mapping with the same keys and
\* values, multi-valued keys held as arrays in occurrence order; and for a key
\* that occurs several times in the entries view the last occurrence wins.
C25_SourceFormEquivalence ==
  (last.op = "extract" /\ last.input.t = "usp")
    => /\ SameOutcome(deserializeUrl(EmptyMap, EmptyMap, heap, sources, last.input,
                                     last.uniqueKey),
                      deserializeUrl(EmptyMap, EmptyMap, heap, sources,
                                     Plain(PlainOf(sources[last.input.id])), last.uniqueKey))
       /\ LastWinsIn(deserializeUrl(EmptyMap, EmptyMap, heap, sources, last.input,
                                    last.uniqueKey),
                     sources[last.input.id], last.uniqueKey)

\* C13: reset clears all three caches: immediately after clearUrlStateCaches the
\* encode cache, the decode cache and the extraction cache hold no entry.
C13_ResetClearsAll ==
  last.op = "clearUrlStateCaches"
    => /\ serializationCache = EmptyMap
       /\ deserializationCache = EmptyMap
       /\ searchParamsCache = EmptyMap

\* The cache `next` holds every entry of `cache`, unchanged.
KeepsEntries(cache, next) == \A k \in DOMAIN cache : k \in DOMAIN next /\ next[k] = cache[k]

\* A cache at its capacity is left as it is.
KeepsFull(cache, next) == Cardinality(DOMAIN cache) >= MAX_CACHE_SIZE => next = cache

\* C14: cache bounds: the encode cache and the decode cache each hold at most
\* MAX_CACHE_SIZE entries in every reachable state; a call made while a cache is
\* full leaves that cache as it is; and every step other than
\* clearUrlStateCaches keeps every entry of both caches unchanged.
C14_CacheBounds ==
  /\ [](/\ Cardinality(DOMAIN serializationCache) <= MAX_CACHE_SIZE
        /\ Cardinality(DOMAIN deserializationCache) <= MAX_CACHE_SIZE)
  /\ [][last'.op # "clearUrlStateCaches"
          => /\ KeepsEntries(serializationCache, serializationCache')
             /\ KeepsEntries(deserializationCache, deserializationCache')
             /\ KeepsFull(serializationCache, serializationCache')
             /\ KeepsFull(deserializationCache, deserializationCache')]_vars

\* serializeUrl returned for an array that the full encode cache does not hold,
\* while the decode cache is full too.
C14_Witness ==
  /\ last.op = "serializeUrl"
  /\ last.arg.t = "ref"
  /\ last.ret.t = "str"
  /\ last.arg.id \notin DOMAIN serializationCache
  /\ Cardinality(DOMAIN serializationCache) = MAX_CACHE_SIZE
  /\ Cardinality(DOMAIN deserializationCache) = MAX_CACHE_SIZE

\* All three caches of the serializer.
AllCaches == <<serializationCache, deserializationCache, searchParamsCache>>

\* C15: serializeUrl(null) and serializeUrl(undefined) return the empty text,
\* deserializeUrl("") returns the empty text, and each of these calls leaves
\* every cache as it was, whatever the caches hold.
C15_IdentityOnEmpty ==
  [][/\ (last'.op = "serializeUrl" /\ last'.arg \in {Null, Undefined})
          => (last'.ret = Str(<<>>) /\ UNCHANGED AllCaches)
     /\ (last'.op = "deserializeUrl" /\ last'.arg = <<>>)
          => (last'.ret = Str(<<>>) /\ UNCHANGED AllCaches)]_vars

C15_Witness ==
  /\ last.op = "serializeUrl"
  /\ last.arg = Null
  /\ last.ret = Str(<<>>)
  /\ serializationCache # EmptyMap
  /\ deserializationCache # EmptyMap

\* The text without its minus sign.
Magnitude(text) == IF Len(text) > 0 /\ text[1] = "-" THEN Tail(text) ELSE text

\* Whether the text is the canonical string form of an integer: decimal digits
\* without a leading zero, with a minus sign for a negative number only.
IsStringOfNumber(text) ==
  /\ AllDigits(Magnitude(text))
  /\ Len(Magnitude(text)) = 1 \/ Magnitude(text)[1] # "0"
  /\ text # <<"-", "0">>

NumberWritten(text) ==
  IF text[1] = "-" THEN 0 - DigitsToNat(Magnitude(text)) ELSE DigitsToNat(Magnitude(text))

\* The plain strings: no "[" or "{" at the start, no marker "seroval:" inside.
IsPlainText(text) ==
  /\ (Len(text) = 0 \/ text[1] \notin {"[", "{"})
  /\ ~\E i \in 1..Len(text) :
        i + 7 <= Len(text) /\ SubSeq(text, i, i + 7) = <<"s", "e", "r", "o", "v", "a", "l", ":">>

\* The value ret (in heap h) is what the priority order gives the unescaped
\* text: the four literals, then a canonical number, then a plain string, and
\* otherwise what the structural deserializer builds when it succeeds.
RecognisedAs(text, ret, h) ==
  IF text = <<"t", "r", "u", "e">> THEN ret = Bool(TRUE)
  ELSE IF text = <<"f", "a", "l", "s", "e">> THEN ret = Bool(FALSE)
  ELSE IF text = <<"n", "u", "l", "l">> THEN ret = Null
  ELSE IF text = <<"u", "n", "d", "e", "f", "i", "n", "e", "d">> THEN ret = Undefined
  ELSE IF IsStringOfNumber(text) THEN ret = Num(NumberWritten(text))
  ELSE IF IsPlainText(text) THEN ret = Str(text)
  ELSE deserialize(text).ok => (ret.t = "ref" /\ h[ret.id] = ArrObj(deserialize(text).e))

\* C19: for a non-empty text that the decode cache does not hold and that
\* unescapes, deserializeUrl returns what the priority order gives the unescaped
\* text: "true", "false", "null", "undefined", then a number only when the text
\* is the canonical string of that number, then a plain string as it is, and
\* only otherwise the result of the structural deserializer.
C19_LiteralRecognition ==
  [][(/\ last'.op = "deserializeUrl"
      /\ Len(last'.arg) > 0
      /\ last'.arg \notin DOMAIN deserializationCache
      /\ decodeURIComponent(last'.arg).ok)
       => RecognisedAs(decodeURIComponent(last'.arg).s, last'.ret, heap')]_vars

C19_Witness ==
  /\ last.op = "deserializeUrl"
  /\ last.arg = <<"1", "e", "3">>
  /\ last.ret = Str(<<"1", "e", "3">>)

\* Whether the structural deserializer produces the value of the unescaped text:
\* no literal, no number and no plain string, and deserialize succeeds.
IsStructural(text) ==
  /\ text \notin {<<"t", "r", "u", "e">>, <<"f", "a", "l", "s", "e">>, <<"n", "u", "l", "l">>,
                  <<"u", "n", "d", "e", "f", "i", "n", "e", "d">>}
  /\ ~IsStringOfNumber(text)
  /\ ~IsPlainText(text)
  /\ deserialize(text).ok

\* The step is a deserializeUrl(s) that returned, for a non-empty s the decode
\* cache did not hold, while the cache was below its capacity.
DecodedUncached ==
  /\ last'.op = "deserializeUrl"
  /\ Len(last'.arg) > 0
  /\ last'.arg \notin DOMAIN deserializationCache
  /\ last'.ret.t # "throw"
  /\ Cardinality(DOMAIN deserializationCache) < MAX_CACHE_SIZE

\* The decode cache afterwards holds the returned value for the text.
CachesResult ==
  /\ last'.arg \in DOMAIN deserializationCache'
  /\ deserializationCache'[last'.arg] = last'.ret

\* C22 as stated: after deserializeUrl(s) returns for a non-empty uncached s,
\* with the decode cache below capacity, the cache holds s with the returned
\* value, whichever decode path produced it.
C22_DecodeCachesResultAsStated == [][DecodedUncached => CachesResult]_vars

\* C22: after deserializeUrl(s) returns for a non-empty uncached s, with the
\* decode cache below capacity, the cache holds s with the returned value when
\* the structural deserializer produced it, and is left as it was when a
\* literal, a number, a plain string or the fallback was returned.
C22_DecodeCachesResult ==
  [][DecodedUncached
       => IF IsStructural(decodeURIComponent(last'.arg).s)
            THEN CachesResult /\ KeepsEntries(deserializationCache, deserializationCache')
            ELSE deserializationCache' = deserializationCache]_vars

C22_Witness ==
  /\ last.op = "deserializeUrl"
  /\ last.ret.t = "ref"
  /\ last.ret.id = Len(heap)
  /\ DOMAIN deserializationCache = {last.arg}
  /\ deserializationCache[last.arg] = last.ret

(***************************************************************************)
(* Claims about the builder.                                                *)
(***************************************************************************)
\* The property names of the model: the builder's, and the prefixed names that
\* fromUrl reads without a prefix.
Keys ==
  {K_page, K_pageSize, K_orderBy, K_orderDir, K_sort, K_debug, K_toString,
   <<"u", "_">> \o K_orderBy, <<"u", "_">> \o K_debug}

\* The last call ran build: build itself, or fromUrl after its extraction returned.
BuildCalled == last.op \in {"build", "fromUrl"} /\ "pre" \in DOMAIN last

\* The ignore set of a configuration holds the name k.
InIgnoreSet(cfg, k) == \E i \in DOMAIN cfg.ignored : cfg.ignored[i] = k

\* The object o holds for k what the object d holds for it: the same value, or
\* no entry when d has none.
HoldsAsIn(o, d, k) ==
  IF ObjHas(d, k) THEN ObjHas(o, k) /\ ObjGet(o, k) = ObjGet(d, k) ELSE ~ObjHas(o, k)

\* The object o holds for k the value build starts from: the configured default,
\* else the built-in one (page 1, pageSize 10), else no entry.
HoldsStartValue(cfg, o, k) ==
  IF ObjHas(cfg.defaults, k) THEN ObjHas(o, k) /\ ObjGet(o, k) = ObjGet(cfg.defaults, k)
  ELSE HoldsAsIn(o, BuiltInDefaults, k)

\* The input gives k a value that build processes.
Supplies(input, k) == ObjHas(input, k) /\ ObjGet(input, k).t # "undefined"

\* C6 as stated: for every ignored key, the result of build before post-processing
\* holds the configured default when the key is a configured default, and no
\* entry otherwise.
C6_IgnorePrecedenceAsStated ==
  \A k \in Keys :
    (BuildCalled /\ InIgnoreSet(last.configBefore, k))
      => HoldsAsIn(last.pre, last.configBefore.defaults, k)

\* C6: ignore precedence: for every key k in the ignore set at the time of build,
\* the result of build before post-processing holds for k the value build starts
\* from (the configured default, else the built-in page 1 or pageSize 10) and no
\* entry when there is none; neither the incoming value nor the mapping's output
\* for k reaches the result.
C6_IgnorePrecedence ==
  \A k \in Keys :
    (BuildCalled /\ InIgnoreSet(last.configBefore, k))
      => HoldsStartValue(last.configBefore, last.pre, k)

\* build ran with debug ignored, mapped, a configured default, and supplied.
C6_Witness ==
  /\ last.op = "build"
  /\ InIgnoreSet(last.configBefore, K_debug)
  /\ ObjHas(last.configBefore.mappings, K_debug)
  /\ ObjHas(last.configBefore.defaults, K_debug)
  /\ Supplies(last.input, K_debug)
  /\ last.ret.t = "object"

\* C7 as stated: with no post-process, build({}) returns exactly the configured
\* defaults, and build({page: 3}) differs from them only in page = 3.
C7_DefaultsAndOverrideAsStated ==
  (last.op = "build" /\ last.configBefore.postProcess = "undefined")
    => /\ last.input = <<>>
            => (last.ret.t = "object"
                /\ AsMap(last.ret.o) = AsMap(last.configBefore.defaults))
       /\ last.input = <<<<K_page, Num(3)>>>>
            => (last.ret.t = "object"
                /\ AsMap(last.ret.o)
                     = AsMap(ObjSet(last.configBefore.defaults, K_page, Num(3))))

\* C7: defaults and override: build starts from {page: 1, pageSize: 10} with a
\* shallow copy of the configured defaults written over it, so with no
\* post-process build({}) returns exactly that ({page: 1, pageSize: 10} for a
\* fresh builder), and build({page: 3}), when page is neither ignored nor
\* mapped, differs from it only in page = 3.
C7_DefaultsAndOverride ==
  (last.op = "build" /\ last.configBefore.postProcess = "undefined")
    => /\ last.input = <<>>
            => last.ret = [t |-> "object",
                           o |-> ObjAssign(BuiltInDefaults, last.configBefore.defaults)]
       /\ (last.input = <<>> /\ last.configBefore = NewQueryBuilder(EmptyMap))
            => last.ret = [t |-> "object",
                           o |-> <<<<K_page, Num(1)>>, <<K_pageSize, Num(10)>>>>]
       /\ (/\ last.input = <<<<K_page, Num(3)>>>>
           /\ ~InIgnoreSet(last.configBefore, K_page)
           /\ ~ObjHas(last.configBefore.mappings, K_page))
            => last.ret = [t |-> "object",
                           o |-> ObjSet(ObjAssign(BuiltInDefaults, last.configBefore.defaults),
                                        K_page, Num(3))]

\* build({page: 3}) returned, on a builder whose configured defaults have no page.
C7_Witness ==
  /\ last.op = "build"
  /\ last.configBefore.postProcess = "undefined"
  /\ last.input = <<<<K_page, Num(3)>>>>
  /\ ~InIgnoreSet(last.configBefore, K_page)
  /\ ~ObjHas(last.configBefore.mappings, K_page)
  /\ ~ObjHas(last.configBefore.defaults, K_page)
  /\ ObjHas(last.configBefore.defaults, K_orderDir)
  /\ last.ret.t = "object"

\* The object o holds for k what the default, ignore and mapping steps leave for
\* it: the mapping's output for a supplied, not ignored, mapped key; the supplied
\* value for a supplied, not ignored, unmapped key; the value build starts from
\* otherwise.
HoldsProcessed(cfg, input, o, k) ==
  IF Supplies(input, k) /\ ~InIgnoreSet(cfg, k)
    THEN /\ ObjHas(o, k)
         /\ ObjGet(o, k) = IF MappingOf(cfg, k) # "undefined"
                             THEN ApplyMapper(MappingOf(cfg, k), ObjGet(input, k))
                             ELSE ObjGet(input, k)
    ELSE HoldsStartValue(cfg, o, k)

\* What the caller gets when the post-process ended as q.
Outcome(q) == IF q.thrown THEN Thrown("PostProcessError") ELSE [t |-> "object", o |-> q.o]

\* C8: post-process ordering: when a post-process is configured and every mapping
\* returned, build calls the post-process exactly once, with the result that
\* every default, ignore and mapping step has been applied to for every input
\* key (never the raw input), and returns what it returns.
C8_PostProcessOrdering ==
  (/\ BuildCalled
   /\ last.configBefore.postProcess # "undefined"
   /\ last.ret # Thrown("MappingError"))
    => /\ last.postCalls = 1
       /\ last.postArg = last.pre
       /\ \A k \in Keys : HoldsProcessed(last.configBefore, last.input, last.pre, k)
       /\ \A i \in DOMAIN last.pre : last.pre[i][1] \in Keys
       /\ last.ret = Outcome(ApplyPostProcess(last.configBefore.postProcess, last.pre))

\* build returned the new object of r => ({...r, sort: r.orderDir + r.orderBy}),
\* whose sort is derived from a default and a supplied key, with a mapped key and
\* an ignored key in the input.
C8_Witness ==
  /\ last.op = "build"
  /\ last.configBefore.postProcess = "withSort"
  /\ Supplies(last.input, K_orderBy)
  /\ Supplies(last.input, K_debug)
  /\ ObjHas(last.configBefore.defaults, K_orderDir)
  /\ last.ret.t = "object"
  /\ ObjHas(last.ret.o, K_sort)
  /\ ObjGet(last.ret.o, K_sort) = Str(<<"+", "n">>)
  /\ ~ObjHas(last.pre, K_sort)

\* C9: frame of build: a build call changes neither its input mapping nor the
\* builder's defaults, ignore set, mappings or post-process, and the object it
\* returns is neither the input nor the stored defaults; a later build({}) on
\* the same configuration returns what the first one returned.
C9_BuildFrame ==
  BuildCalled
    => /\ last.inputAfter = last.input
       /\ config = last.configBefore
       /\ last.retIs \notin {"params", "defaults"}
       /\ (last.input = <<>> /\ first.op = "build") => last.ret = first.ret

\* build({}) returned after earlier build calls on the same configuration, one of
\* them the first build({}).
C9_Witness ==
  /\ last.op = "build"
  /\ last.input = <<>>
  /\ first.op = "build"
  /\ first.later
  /\ last.ret.t = "object"
  /\ last.postCalls = 1

\* A mapping of the configuration throws for a key the input supplies and the
\* ignore set does not hold.
MappingThrows(cfg, input) ==
  \E k \in Keys : Supplies(input, k) /\ ~InIgnoreSet(cfg, k) /\ MappingOf(cfg, k) = "throws"

\* C10: builder failure propagation: when a mapping function or the post-process
\* function throws during build or fromUrl, the caller gets that error, and the
\* builder's configuration and the input mapping are after the call what they
\* were before it.
C10_FailurePropagates ==
  BuildCalled
    => /\ MappingThrows(last.configBefore, last.input)
            => last.ret = Thrown("MappingError")
       /\ (~MappingThrows(last.configBefore, last.input)
             /\ last.configBefore.postProcess = "throws")
            => last.ret = Thrown("PostProcessError")
       /\ last.ret.t = "throw"
            => (config = last.configBefore /\ last.inputAfter = last.input)

\* fromUrl ended with the error of a mapping.
C10_Witness ==
  /\ last.op = "fromUrl"
  /\ BuildCalled
  /\ MappingThrows(last.configBefore, last.input)
  /\ last.ret = Thrown("MappingError")

\* The defaults `after` a call setDefaults(d) on a builder whose defaults were
\* `before`: for every key, the value d gives it, else what `before` held for it.
MergedOver(before, d, after) ==
  \A k \in Keys : IF ObjHas(d, k) THEN ObjHas(after, k) /\ ObjGet(after, k) = ObjGet(d, k)
                   ELSE HoldsAsIn(after, before, k)

\* The defaults a builder constructed with config c holds.
ConstructedDefaults(c) == IF "defaults" \in DOMAIN c THEN c.defaults ELSE BuiltInDefaults

\* C17 as stated: after construction the defaults hold page 1 and pageSize 10,
\* and each setDefaults call gives every key it names its value and leaves
\* every other key as it was, removing none.
C17_DefaultMergingAsStated ==
  [][/\ last'.op = "construct"
          => \A k \in ObjKeys(BuiltInDefaults) : HoldsAsIn(config'.defaults, BuiltInDefaults, k)
     /\ last'.op = "setDefaults" => MergedOver(config.defaults, last'.arg, config'.defaults)]_vars

\* C17: after construction the defaults are those of the constructor's config
\* when it gives any, else page 1 and pageSize 10; each setDefaults call gives
\* every key it names its value and leaves every other key as it was, removing
\* none.
C17_DefaultMerging ==
  [][/\ last'.op = "construct"
          => \A k \in Keys : HoldsAsIn(config'.defaults, ConstructedDefaults(last'.arg), k)
     /\ last'.op = "setDefaults" => MergedOver(config.defaults, last'.arg, config'.defaults)]_vars

C17_Witness ==
  /\ last.op = "setDefaults"
  /\ ObjHas(config.defaults, K_orderDir)
  /\ ObjHas(config.defaults, K_page) /\ ObjGet(config.defaults, K_page) = Num(2)
  /\ ObjHas(config.defaults, K_debug)
  /\ ~ObjHas(config.defaults, K_pageSize)

\* The object o holds for the supplied key k what the registered mappings of
\* cfg make of the input's value: fn(value) for a registered fn, else the value.
HoldsRegistered(cfg, input, o, k) ==
  /\ ObjHas(o, k)
  /\ ObjGet(o, k) = IF ObjHas(cfg.mappings, k)
                      THEN ApplyMapper(ObjGet(cfg.mappings, k), ObjGet(input, k))
                      ELSE ObjGet(input, k)

\* C20: per-key processing of build: whatever the key's name, for an input key
\* that is not ignored and whose value is not undefined the result before
\* post-processing holds fn(value) when a mapping fn was registered for the key,
\* and the input value unchanged when none was; a key whose value is undefined
\* leaves the result as build started it.
C20_PerKeyProcessing ==
  (BuildCalled /\ last.ret # Thrown("MappingError"))
    => \A k \in Keys :
         /\ (Supplies(last.input, k) /\ ~InIgnoreSet(last.configBefore, k))
              => HoldsRegistered(last.configBefore, last.input, last.pre, k)
         /\ (ObjHas(last.input, k) /\ ~Supplies(last.input, k))
              => HoldsStartValue(last.configBefore, last.pre, k)

\* What builder j returns for every input, with the heap h.
BehaviourOf(h, j) ==
  [params \in ParamsInputs |-> build(ConfigValue(h, config.builders[j]), params).ret]

\* C23: builder isolation: an ignore or addMapping call on one builder leaves
\* the config object the caller passed to the constructor as it was, and leaves
\* what every other builder constructed from that config object returns as it
\* was.
C23_BuilderIsolation ==
  [][(last'.op \in {"ignore", "addMapping"} /\ "who" \in DOMAIN last')
       => /\ PassedValue(heap', config.passed) = PassedValue(heap, config.passed)
          /\ \A j \in Builders \ {last'.who} : BehaviourOf(heap', j) = BehaviourOf(heap, j)]_vars

(***************************************************************************)
(* Claims about useUrlState.                                                *)
(***************************************************************************)
\* The last call was an update through an instance of useUrlState.
UpdateCalled ==
  last.op \in {"setItem", "setItems", "deleteItem", "deleteItems", "deleteAllItems"}

\* The values an update removes a parameter for: "", [], {}, false, null and
\* undefined.
IsEmptyValue(h, v) ==
  \/ v \in {Str(<<>>), Bool(FALSE), Null, Undefined}
  \/ v.t = "ref" /\ h[v.id] \in {ArrObj(<<>>), PlainObj(<<>>)}

\* The parameters have one of the given name.
HasParam(entries, name) == \E i \in DOMAIN entries : entries[i][1] = name

DeepStateOf(r) == DeepEntries(r.heap, r.state)

\* The state instance q reads from the parameters `entries` of the location.
StateRead(q, entries) ==
  DeepStateOf(UseUrlStateState(hook.caches[q], deserializationCache, heap, entries,
                               hook.keys[q]))

\* Whether only instance p has navigated since the last render.
OnlyThrough(p) == hook.since \subseteq {p}

\* Whether every navigation since the last render left the state q reads as it
\* was rendered, and the state of p has no entry under a name q writes.
Independent(p, q) ==
  /\ OnlyThrough(p) => StateRead(q, hook.location) = DeepEntries(heap, hook.state[q])
  /\ \A j \in DOMAIN hook.state[p] :
       ~StartsWith(hook.keys[p] \o hook.state[p][j][1], hook.keys[q])

Unrelated(p, q) == ~StartsWith(hook.keys[p], hook.keys[q]) /\ ~StartsWith(hook.keys[q], hook.keys[p])

DeepMappingOf(r) == DeepEntries(r.heap, r.heap[r.ret.id].p)

\* deserializeUrl(searchParams, uniqueKey) returns as r a mapping equal to state.
ReadsAs(r, state) == r.ret.t = "ref" /\ DeepMappingOf(r) = DeepEntries(heap, state)

\* The state instance i exposes is what deserializeUrl makes of the parameters of
\* its render, and holds every parameter written under its unique key.
SameAsServer(i) ==
  /\ ReadsAs(deserializeUrl(EmptyMap, EmptyMap, heap, <<hook.rendered>>, Usp(1), hook.keys[i]),
             hook.state[i])
  /\ \A j \in DOMAIN hook.rendered :
       StartsWith(hook.rendered[j][1], hook.keys[i])
         => ObjHas(hook.state[i], Stripped(hook.rendered[j][1], hook.keys[i]))

\* C24: for every parameter source and every unique key, the empty key included,
\* the state useUrlState(uniqueKey) exposes equals
\* deserializeUrl(searchParams, uniqueKey), and a value written by setItem(k, v)
\* is in the state under k once the navigation is applied.
C24_ClientServerSameState ==
  hook.mounted => \A i \in Instances : SameAsServer(i)

\* C12: removal policy: after an update (setItem, setItems, deleteItem,
\* deleteItems, deleteAllItems) whose value for key k is "", [], {}, false, null
\* or undefined, the location has no parameter prefix+k.
C12_RemovalPolicy ==
  UpdateCalled
    => \A j \in DOMAIN last.updates :
         IsEmptyValue(heap, last.updates[j][2])
           => ~HasParam(hook.location, hook.keys[last.who] \o last.updates[j][1])

\* The parameters hold `name` with the string serializeUrl ended with as e.
HoldsSerialized(entries, name, e) == e.ret.t = "str" /\ SearchParamsGet(entries, name) = e.ret

\* C26: only empty values are removed: an update whose value for key k is none
\* of "", null, undefined, [], {} and false (0, true, a non-empty string, a Date)
\* sets the parameter prefix+k to serializeUrl(value) in the next location.
C26_OnlyEmptyRemoved ==
  UpdateCalled
    => \A j \in DOMAIN last.updates :
         ~IsEmptyValue(heap, last.updates[j][2])
           => HoldsSerialized(hook.location, hook.keys[last.who] \o last.updates[j][1],
                              serializeUrl(EmptyMap, heap, last.updates[j][2]))

\* The entries of the parameters under a name.
ParamsNamed(entries, name) == SelectSeq(entries, LAMBDA e : e[1] = name)

NamesOf(entries) == {entries[j][1] : j \in DOMAIN entries}

\* The parameter names an update of instance i names.
NamedBy(i, updates) == {hook.keys[i] \o updates[j][1] : j \in DOMAIN updates}

\* Every parameter the update does not name is in `after` as it was in `before`.
KeepsOthers(i, updates, before, after) ==
  \A name \in (NamesOf(before) \cup NamesOf(after)) \ NamedBy(i, updates) :
    ParamsNamed(after, name) = ParamsNamed(before, name)

\* The update only removes keys the location does not hold.
RemovesAbsent(i, updates) ==
  /\ Len(updates) > 0
  /\ \A j \in DOMAIN updates :
       /\ IsEmptyValue(heap, updates[j][2])
       /\ ~HasParam(hook.location, hook.keys[i] \o updates[j][1])

\* The update repeats values whose navigation has been applied: the component
\* has rendered the location, which holds every value of the update.
RepeatsApplied(i, updates) ==
  /\ Len(updates) > 0
  /\ hook.location = hook.rendered
  /\ \A j \in DOMAIN updates :
       HoldsSerialized(hook.location, hook.keys[i] \o updates[j][1],
                       serializeUrl(EmptyMap, heap, updates[j][2]))

\* What C27 says of one update of instance i that did or did not navigate.
NavigatesOnChange(i, updates, pushed, before, after) ==
  /\ pushed => after # before
  /\ pushed => KeepsOthers(i, updates, before, after)
  /\ Len(updates) = 0 => ~pushed
  /\ RemovesAbsent(i, updates) => ~pushed
  /\ RepeatsApplied(i, updates) => ~pushed

\* C27: no redundant navigation: updateUrl navigates only when a parameter of
\* the location changes; an empty update, the removal of an absent key and a
\* setItem repeated after its navigation was applied navigate nowhere; and a
\* navigation leaves every parameter the update does not name as it was.
C27_NoRedundantNavigation ==
  [][UpdateCalled'
       => NavigatesOnChange(last'.who, last'.updates, last'.pushed, hook.location,
                            hook'.location)]_vars

(***************************************************************************)
(* Claims about useUrlStateBatch.                                           *)
(***************************************************************************)
\* Line 630 for the value of pendingUpdates, or an update handed to the hook
\* that setItems has not received.
Outstanding == Len(batch.pending) > 0 \/ Len(batch.handed) > 0

\* C18: while the component stays mounted, every update handed to the batch hook
\* is eventually passed to the underlying setItems and hasPendingUpdates
\* eventually becomes false.
C18_BatchEventuallyFlushed ==
  (batch.mounted /\ Outstanding) ~> (~batch.mounted \/ ~Outstanding)

=============================================================================
